---- MODULE Spec2Model ----
(***************************************************************************)
(* Model of the schema-driven ingestion pipeline (ingestion_job):          *)
(* path engine, predicate engine, variant resolver, mapper, identity       *)
(* engine, relationship builder, graph sinks and the orchestrator          *)
(* IngestionPipeline with its document, run and quarantine stores.         *)
(***************************************************************************)
EXTENDS Integers, Sequences, FiniteSets, TLC

VARIABLES
    graph_sink,     \* settings.graph_sink: "json" or "neo4j"
    pipes,          \* per pipeline object: lifecycle, settings.run_id, run_record
    docs,           \* document store: document_id -> last IngestedDocument written
    runs,           \* document store: run_id -> last IngestionRun written
    quarantine,     \* quarantine store: sequence of QuarantinedDocument records
    json_nodes,     \* JsonGraphSink: graph_nodes.jsonl (sequence of node records)
    json_rels,      \* JsonGraphSink: graph_rels.jsonl (sequence of rel records)
    neo_nodes,      \* Neo4j: set of nodes [label, id, props]
    neo_rels,       \* Neo4j: set of relationships [type, from, to, props]
    last,           \* trace of the most recent ingest_file call
    ingests,        \* number of ingest_file calls made so far
    call            \* harness for the pure functions: inputs and result of one call

vars == <<graph_sink, pipes, docs, runs, quarantine, json_nodes, json_rels,
          neo_nodes, neo_rels, last, ingests, call>>

pipeline_vars == <<graph_sink, pipes, docs, runs, quarantine, json_nodes,
                   json_rels, neo_nodes, neo_rels, last, ingests>>

(***************************************************************************)
(* Canonical trees.  A tree is a scalar string, None, a dict or a list.    *)
(***************************************************************************)
S(v) == [k |-> "str", s |-> v]
D(m) == [k |-> "dict", m |-> m]
L(l) == [k |-> "list", l |-> l]
NoneT == [k |-> "none"]
EmptyDict == D(<<>>)

\* dict.get(key): the value, or None when the key is absent
Get(rec, key) == IF key \in DOMAIN rec THEN rec[key] ELSE NoneT

RECURSIVE Concat(_)
Concat(ss) == IF ss = <<>> THEN <<>> ELSE Head(ss) \o Concat(Tail(ss))

(***************************************************************************)
(* Path engine.  A path is the token list _parse_path produces:            *)
(* root, key(name), idx(n), wild.                                          *)
(***************************************************************************)
Root == [t |-> "root"]
Key(name) == [t |-> "key", v |-> name]
Idx(n) == [t |-> "idx", n |-> n]
Wild == [t |-> "wild"]

\* one token applied to the current item list
jp_step(cur, tok) ==
    IF tok.t = "key" THEN
        Concat([i \in 1..Len(cur) |->
            IF cur[i].k = "dict" /\ tok.v \in DOMAIN cur[i].m
            THEN <<cur[i].m[tok.v]>> ELSE <<>>])
    ELSE IF tok.t = "idx" THEN
        Concat([i \in 1..Len(cur) |->
            IF cur[i].k = "list" /\ 0 <= tok.n /\ tok.n < Len(cur[i].l)
            THEN <<cur[i].l[tok.n + 1]>> ELSE <<>>])
    ELSE \* wild
        Concat([i \in 1..Len(cur) |->
            IF cur[i].k = "list" THEN cur[i].l
            ELSE IF cur[i] # NoneT THEN <<cur[i]>> ELSE <<>>])

RECURSIVE jp_walk(_, _)
jp_walk(cur, tokens) ==
    IF tokens = <<>> THEN cur
    ELSE LET nxt == jp_step(cur, Head(tokens))
         IN  IF nxt = <<>> THEN <<>> ELSE jp_walk(nxt, Tail(tokens))

\* the tokens after a leading root token
path_tokens(path) == IF path # <<>> /\ Head(path).t = "root" THEN Tail(path) ELSE path

jp_values(obj, path) ==
    SelectSeq(jp_walk(<<obj>>, path_tokens(path)), LAMBDA x : x # NoneT)

first_or_none(vals) == IF vals # <<>> THEN vals[1] ELSE NoneT

jp_first(obj, path) == first_or_none(jp_values(obj, path))

(***************************************************************************)
(* Predicate engine.                                                       *)
(***************************************************************************)
\* re.search(pat, s) for the patterns used here: "" and the anchored literal
re_search(pat, s) == pat = "" \/ pat = "^" \o s \o "$"

\* dict.get on a rule, for fields that hold plain strings or lists
RuleGet(rule, key, default) == IF key \in DOMAIN rule THEN rule[key] ELSE default

KnownAllTypes == {"json_exists", "json_equals", "json_in", "json_regex"}

\* is the rule missing its type or its path
bad_rule(rule) == RuleGet(rule, "type", "") = "" \/ RuleGet(rule, "path", <<>>) = <<>>

\* ok for a rule of a known kind, given the value val found at its path
rule_ok(rule, val) ==
    IF rule.type = "json_exists" THEN val # NoneT
    ELSE IF rule.type = "json_equals" THEN val = Get(rule, "value")
    ELSE IF rule.type = "json_in" THEN
        \E i \in 1..Len(RuleGet(rule, "values", <<>>)) : rule.values[i] = val
    ELSE val.k = "str" /\ re_search(RuleGet(rule, "pattern", ""), val.s)

\* the verdict of one rule of the "all" clause: "bad", "unsupported", "ok", "failed"
all_rule_verdict(doc, rule) ==
    IF bad_rule(rule) THEN "bad"
    ELSE IF rule.type \notin KnownAllTypes THEN "unsupported"
    ELSE IF rule_ok(rule, jp_first(doc, rule.path)) THEN "ok"
    ELSE "failed"

\* should_not_exist for a rule of the "none" clause, given the value at its path
none_hit(rule, val) ==
    IF rule.type = "json_exists" THEN val # NoneT
    ELSE IF rule.type = "json_equals" THEN val = Get(rule, "value")
    ELSE FALSE

none_rule_hit(doc, rule) ==
    IF bad_rule(rule) THEN FALSE ELSE none_hit(rule, jp_first(doc, rule.path))

\* the reason a verdict appends
verdict_reason(rule, v) ==
    IF v = "bad" THEN <<"bad_rule_missing_type_or_path">>
    ELSE IF v = "unsupported" THEN <<"unsupported_type", rule.type>>
    ELSE <<"failed", rule.type, rule.path>>

\* one turn of the loop over the "all" clause: acc = [failed, score, reasons]
all_turn(acc, rule, v) ==
    IF v = "ok" THEN [acc EXCEPT !.score = @ + 1]
    ELSE [failed |-> v = "failed", score |-> acc.score,
          reasons |-> Append(acc.reasons, verdict_reason(rule, v))]

\* the loop over the "all" clause, stopping at the first failed rule
RECURSIVE eval_all(_, _, _)
eval_all(doc, rules, acc) ==
    IF rules = <<>> \/ acc.failed THEN acc
    ELSE eval_all(doc, Tail(rules),
                  all_turn(acc, Head(rules), all_rule_verdict(doc, Head(rules))))

\* the loop over the "none" clause: the first rule that hits, or 0
RECURSIVE first_none_hit(_, _, _)
first_none_hit(doc, rules, i) ==
    IF i > Len(rules) THEN 0
    ELSE IF none_rule_hit(doc, rules[i]) THEN i
    ELSE first_none_hit(doc, rules, i + 1)

\* a result whose score also counts the rules of the "none" clause that passed
predicate_result_counting_none(all_predicates, none_predicates, a, h) ==
    IF a.failed THEN
        [matched |-> FALSE, score |-> a.score, reasons |-> a.reasons]
    ELSE IF h # 0 THEN
        [matched |-> FALSE, score |-> a.score + (h - 1),
         reasons |-> Append(a.reasons,
            <<"none_failed", none_predicates[h].type, none_predicates[h].path>>)]
    ELSE
        [matched |-> (Len(all_predicates) = 0 \/ a.score = Len(all_predicates)),
         score |-> a.score + Len(none_predicates), reasons |-> a.reasons]

\* the result, given the outcome a of the "all" loop and the hit h of the "none" loop
predicate_result(all_predicates, none_predicates, a, h) ==
    IF a.failed THEN
        [matched |-> FALSE, score |-> a.score, reasons |-> a.reasons]
    ELSE IF h # 0 THEN
        [matched |-> FALSE, score |-> a.score,
         reasons |-> Append(a.reasons,
            <<"none_failed", none_predicates[h].type, none_predicates[h].path>>)]
    ELSE
        [matched |-> (Len(all_predicates) = 0 \/ a.score = Len(all_predicates)),
         score |-> a.score, reasons |-> a.reasons]

eval_predicate(doc, pred) ==
    predicate_result(RuleGet(pred, "all", <<>>), RuleGet(pred, "none", <<>>),
        eval_all(doc, RuleGet(pred, "all", <<>>),
                 [failed |-> FALSE, score |-> 0, reasons |-> <<>>]),
        first_none_hit(doc, RuleGet(pred, "none", <<>>), 1))

(***************************************************************************)
(* Variant resolver.                                                       *)
(***************************************************************************)
\* the (register schema, variant) pairs in iteration order
RECURSIVE all_variants(_)
all_variants(register_schemas) ==
    IF register_schemas = <<>> THEN <<>>
    ELSE LET rs == Head(register_schemas)
         IN  [i \in 1..Len(rs.variants) |-> [v |-> rs.variants[i], rs |-> rs]]
             \o all_variants(Tail(register_schemas))

\* list.sort(key=score, reverse=True): stable, descending by score
RECURSIVE insert_by_score(_, _)
insert_by_score(sorted, c) ==
    IF sorted = <<>> THEN <<c>>
    ELSE IF Head(sorted).score >= c.score
         THEN <<Head(sorted)>> \o insert_by_score(Tail(sorted), c)
         ELSE <<c>> \o sorted

RECURSIVE sort_candidates(_)
sort_candidates(cands) ==
    IF cands = <<>> THEN <<>>
    ELSE insert_by_score(sort_candidates(SubSeq(cands, 1, Len(cands) - 1)),
                         cands[Len(cands)])

\* candidate entries narrowed up front to the register schemas whose
\* registry_code equals the document's meta.registry_code, when it has one
candidate_entries_by_registry(canonical_doc, pairs) ==
    LET rc == Get(Get(canonical_doc.m, "meta").m, "registry_code")
        kept == SelectSeq(pairs, LAMBDA x : rc = NoneT \/ S(x.rs.registry_code) = rc)
    IN  [i \in 1..Len(kept) |->
            [v |-> kept[i].v, rs |-> kept[i].rs,
             e |-> eval_predicate(canonical_doc, kept[i].v.match_predicate)]]

\* the candidate entries: every variant with its predicate's verdict
candidate_entries(canonical_doc, pairs) ==
    [i \in 1..Len(pairs) |->
        [v |-> pairs[i].v, rs |-> pairs[i].rs,
         e |-> eval_predicate(canonical_doc, pairs[i].v.match_predicate)]]

attempts_of(entries) ==
    [i \in 1..Len(entries) |->
        [variant_id |-> entries[i].v.variant_id,
         registry_code |-> entries[i].rs.registry_code,
         score |-> entries[i].e.score,
         matched |-> entries[i].e.matched,
         reasons |-> entries[i].e.reasons]]

candidates_of(entries) ==
    sort_candidates(
        SelectSeq([i \in 1..Len(entries) |->
                      [v |-> entries[i].v, score |-> entries[i].e.score,
                       matched |-> entries[i].e.matched]],
                  LAMBDA c : c.matched))

meta_of(canonical_doc) ==
    IF canonical_doc.k = "dict" /\ Get(canonical_doc.m, "meta").k = "dict"
    THEN canonical_doc.m.meta.m ELSE <<>>

debug_of(metam, attempts) ==
    [meta |-> [registry_code |-> Get(metam, "registry_code"),
               service_code |-> Get(metam, "service_code"),
               method_code |-> Get(metam, "method_code")],
     details |-> attempts]

best_of(candidates) ==
    SelectSeq(candidates, LAMBDA c : c.score = candidates[1].score)

\* a resolver that takes the first candidate of the top score instead of
\* reporting the tie
pick_first(candidates, best, debug) ==
    IF candidates = <<>> THEN [variant |-> NoneT, debug |-> debug]
    ELSE [variant |-> candidates[1].v, debug |-> debug]

\* the outcome, given the sorted candidates and those of the top score
pick(candidates, best, debug) ==
    IF candidates = <<>> THEN [variant |-> NoneT, debug |-> debug]
    ELSE IF Len(best) # 1 THEN
        [variant |-> NoneT,
         debug |-> [meta |-> debug.meta, details |-> debug.details,
                    ambiguity |-> [i \in 1..Len(best) |-> best[i].v.variant_id]]]
    ELSE [variant |-> best[1].v, debug |-> debug]

resolve_entries(canonical_doc, entries) ==
    pick(candidates_of(entries), best_of(candidates_of(entries)),
         debug_of(meta_of(canonical_doc), attempts_of(entries)))

resolve_variant_impl(canonical_doc, register_schemas) ==
    resolve_entries(canonical_doc,
                    candidate_entries(canonical_doc, all_variants(register_schemas)))

(***************************************************************************)
(* Reader and canonicalizer.  Raw bytes are named; JsonLoads gives what    *)
(* json.loads (after the trailing-comma cleanup and the fallbacks) makes   *)
(* of them: a tree, or a parse error.                                      *)
(***************************************************************************)
sha256(x) == [sha256 |-> x]
sha256_str(s) == "sha256(" \o s \o ")"
uuid5(s) == "uuid5(" \o s \o ")"

PersonDoc(rnokpp, extra) == D([root |-> D([result |-> D(("rnokpp" :> S(rnokpp)) @@ extra)])])

JsonLoads ==
    [b_bad  |-> [parse_error |-> "json_parse_error", obj |-> NoneT],
     b_none |-> [parse_error |-> "", obj |-> D([root |-> D([other |-> S("z")])])],
     b_p1a  |-> [parse_error |-> "", obj |-> PersonDoc("1", [date_birth |-> S("a")])],
     b_p1b  |-> [parse_error |-> "", obj |-> PersonDoc("1", [date_birth |-> S("b")])],
     b_tie  |-> [parse_error |-> "", obj |-> PersonDoc("1", [last_name |-> S("n")])],
     b_car  |-> [parse_error |-> "",
                 obj |-> D([root |-> D([result |-> D([rnokpp |-> S("1")]),
                                        CARS |-> L(<<D([VIN |-> S("v"),
                                                        OWNER |-> D([CODE |-> S("1")])])>>)])])],
     b_name |-> [parse_error |-> "",
                 obj |-> D([root |-> D([result |-> D([last_name |-> S("n")])])])],
     b_cars |-> [parse_error |-> "",
                 obj |-> D([root |-> D([result |-> D([rnokpp |-> S("1")]),
                                        CARS |-> L(<<D([VIN |-> S("v"),
                                                        OWNER |-> D([CODE |-> S("1")])]),
                                                     D([VIN |-> S("v"),
                                                        OWNER |-> D([CODE |-> S("1")])])>>)])])],
     b_org  |-> [parse_error |-> "",
                 obj |-> D([root |-> D([org |-> D([code |-> S("1"), name |-> S("n")])])])],
     b_org1 |-> [parse_error |-> "",
                 obj |-> D([root |-> D([org |-> D([code |-> S("1")])])])],
     b_dup  |-> [parse_error |-> "",
                 obj |-> D([root |-> D([dup |-> D([a |-> S("x"), b |-> S("y")])])])],
     b_split |-> [parse_error |-> "",
                  obj |-> D([root |-> D([split |-> D([code |-> S("1"), name |-> S("n")])])])],
     b_req  |-> [parse_error |-> "",
                 obj |-> D([root |-> D([req |-> D([id |-> S("1")])])])],
     b_cars2 |-> [parse_error |-> "",
                  obj |-> D([root |-> D([result |-> D([rnokpp |-> S("1")]),
                                         CARS |-> L(<<D([VIN |-> S("v"),
                                                         OWNER |-> D([CODE |-> S("1")])]),
                                                      D([VIN |-> S("w"),
                                                         OWNER |-> D([CODE |-> S("2")])])>>)])])],
     b_addr |-> [parse_error |-> "",
                 obj |-> D([root |-> D([addr |-> L(<<D([city |-> S("k")]),
                                                     D([city |-> S("l")])>>)])])]]

\* the file system: path -> bytes; a path outside the domain cannot be read
FileBytes ==
    [f_bad |-> "b_bad", f_none |-> "b_none", f_a |-> "b_p1a", f_b |-> "b_p1b",
     f_tie |-> "b_tie", f_car |-> "b_car", f_name |-> "b_name", f_name2 |-> "b_name",
     f_cars |-> "b_cars", f_org |-> "b_org", f_org1 |-> "b_org1",
     f_dup |-> "b_dup", f_split |-> "b_split", f_req |-> "b_req",
     f_cars2 |-> "b_cars2", f_addr |-> "b_addr"]

\* the paths handed to a batch of register answers; f_missing cannot be read
FilePaths == {"f_bad", "f_none", "f_a", "f_b", "f_tie", "f_car", "f_missing"}

read_raw_document(file_path) ==
    [file_path |-> file_path,
     content_type |-> "application/json",
     raw_bytes |-> FileBytes[file_path],
     content_hash |-> sha256(FileBytes[file_path])]

PersonKeys == {"rnokpp", "unzr", "first_name", "last_name", "date_birth"}

heuristic_meta_from_json(obj) ==
    IF /\ obj.k = "dict" /\ "root" \in DOMAIN obj.m /\ obj.m.root.k = "dict"
       /\ "result" \in DOMAIN obj.m.root.m /\ obj.m.root.m.result.k = "dict"
       /\ PersonKeys \cap DOMAIN obj.m.root.m.result.m # {}
    THEN [registry_code |-> S("EIS"), service_code |-> S("PERSON")]
    ELSE <<>>

base_meta(raw_doc) ==
    [file_path |-> S(raw_doc.file_path), content_type |-> S(raw_doc.content_type)]

canonical_document(raw_doc, meta, data, parse_error) ==
    [file_path |-> raw_doc.file_path,
     raw_hash |-> raw_doc.content_hash,
     canonical_hash |-> sha256([meta |-> meta, data |-> data]),
     meta |-> meta, data |-> data,
     parse_error |-> parse_error]

\* JsonAdapter.process, given what json.loads made of the bytes
process_parsed(raw_doc, parsed) ==
    IF parsed.parse_error = ""
    THEN canonical_document(raw_doc,
            heuristic_meta_from_json(parsed.obj) @@ base_meta(raw_doc), parsed.obj, "")
    ELSE canonical_document(raw_doc, base_meta(raw_doc),
            D([_raw_preview |-> S(raw_doc.raw_bytes)]), parsed.parse_error)

canonicalize(raw_doc) == process_parsed(raw_doc, JsonLoads[raw_doc.raw_bytes])

(***************************************************************************)
(* Schema registry loaded by the pipeline.                                 *)
(***************************************************************************)
P(keys) == <<Root>> \o [i \in 1..Len(keys) |-> Key(keys[i])]
Exists(path) == [type |-> "json_exists", path |-> path, value |-> NoneT]

Mapping(mid, scope, src, targets) ==
    [mapping_id |-> mid, scope |-> scope, source |-> [json_path |-> src],
     targets |-> targets, required |-> FALSE]
Target(entity, property) == [entity |-> entity, property |-> property, entity_ref |-> ""]

vPerson ==
    [variant_id |-> "vPerson",
     match_predicate |-> [all |-> <<Exists(P(<<"data", "root", "result", "rnokpp">>))>>,
                          none |-> <<>>],
     mappings |-> <<
        Mapping("", <<>>, P(<<"data", "root", "result", "rnokpp">>),
                <<Target("Person", "rnokpp")>>),
        Mapping("", <<>>, P(<<"data", "root", "result", "date_birth">>),
                <<Target("Person", "birth_date")>>)>>]

vName ==
    [variant_id |-> "vName",
     match_predicate |-> [all |-> <<Exists(P(<<"data", "root", "result", "last_name">>))>>,
                          none |-> <<>>],
     mappings |-> <<
        Mapping("m_name", <<>>, P(<<"data", "root", "result", "last_name">>),
                <<Target("Person", "last_name")>>)>>]

vCar ==
    [variant_id |-> "vCar",
     match_predicate |->
        [all |-> <<Exists(P(<<"data", "root", "CARS">>)),
                   Exists(P(<<"data", "root", "CARS">>) \o <<Idx(0), Key("VIN")>>)>>,
         none |-> <<>>],
     mappings |-> <<
        Mapping("car", [foreach |-> P(<<"data", "root", "CARS">>) \o <<Wild>>],
                P(<<"VIN">>), <<Target("Vehicle", "vin")>>),
        Mapping("car", [foreach |-> P(<<"data", "root", "CARS">>) \o <<Wild>>],
                P(<<"OWNER", "CODE">>), <<Target("Person", "rnokpp")>>)>>]

vOrg ==
    [variant_id |-> "vOrg",
     match_predicate |-> [all |-> <<Exists(P(<<"data", "root", "org", "code">>))>>,
                          none |-> <<>>],
     mappings |-> <<
        Mapping("org", <<>>, P(<<"data", "root", "org", "code">>),
                <<Target("Organization", "code")>>),
        Mapping("org", <<>>, P(<<"data", "root", "org", "name">>),
                <<Target("Organization", "name")>>)>>]

\* two mappings of one scope that write the same property
vDup ==
    [variant_id |-> "vDup",
     match_predicate |-> [all |-> <<Exists(P(<<"data", "root", "dup", "a">>))>>,
                          none |-> <<>>],
     mappings |-> <<
        Mapping("", <<>>, P(<<"data", "root", "dup", "a">>),
                <<Target("Person", "last_name")>>),
        Mapping("", <<>>, P(<<"data", "root", "dup", "b">>),
                <<Target("Person", "last_name")>>)>>]

\* two mappings of one scope and one entity_ref under different mapping ids
vSplit ==
    [variant_id |-> "vSplit",
     match_predicate |-> [all |-> <<Exists(P(<<"data", "root", "split", "code">>))>>,
                          none |-> <<>>],
     mappings |-> <<
        Mapping("org_main", <<>>, P(<<"data", "root", "split", "code">>),
                <<Target("Organization", "code")>>),
        Mapping("org_name", <<>>, P(<<"data", "root", "split", "name">>),
                <<Target("Organization", "name")>>)>>]

\* a mapping declared required=true
vReq ==
    [variant_id |-> "vReq",
     match_predicate |-> [all |-> <<Exists(P(<<"data", "root", "req", "id">>))>>,
                          none |-> <<>>],
     mappings |-> <<
        Mapping("req", <<>>, P(<<"data", "root", "req", "id">>),
                <<Target("Person", "unzr")>>),
        [Mapping("req", <<>>, P(<<"data", "root", "req", "name">>),
                 <<Target("Person", "last_name")>>) EXCEPT !.required = TRUE]>>]

vAddr ==
    [variant_id |-> "vAddr",
     match_predicate |-> [all |-> <<Exists(P(<<"data", "root", "addr">>))>>,
                          none |-> <<>>],
     mappings |-> <<
        Mapping("addr", [foreach |-> P(<<"data", "root", "addr">>) \o <<Wild>>],
                P(<<"city">>), <<Target("Address", "city")>>),
        Mapping("addr", [foreach |-> P(<<"data", "root", "addr">>) \o <<Wild>>],
                P(<<"koatuu">>), <<Target("Address", "koatuu")>>)>>]

RegisterSchema(code, variants) ==
    [registry_code |-> code, service_code |-> "", method_code |-> "", variants |-> variants]

IdentityKey(priority, exists, properties) ==
    [priority |-> priority, when |-> [exists |-> exists], properties |-> properties]

schema_registry ==
    [entity_schemas |->
        [Person |-> [identity_keys |-> <<IdentityKey(1, <<"rnokpp">>, <<"rnokpp">>)>>,
                     immutable |-> {"birth_date"}],
         Vehicle |-> [identity_keys |-> <<IdentityKey(1, <<"vin">>, <<"vin">>)>>,
                      immutable |-> {}],
         Organization |-> [identity_keys |-> <<IdentityKey(2, <<"name">>, <<"name">>),
                                               IdentityKey(1, <<"code">>, <<"code">>)>>,
                           immutable |-> {}],
         Address |-> [identity_keys |-> <<[priority |-> 1, when |-> <<>>,
                                           properties |-> <<"koatuu">>]>>,
                      immutable |-> {}]],
     register_schemas |->
        <<RegisterSchema("EIS", <<vPerson>>), RegisterSchema("DRFO", <<vName>>),
          RegisterSchema("CAR", <<vCar>>), RegisterSchema("ORG", <<vOrg, vSplit>>),
          RegisterSchema("TEST", <<vDup, vReq>>), RegisterSchema("RRP", <<vAddr>>)>>,
     relationship_schemas |->
        <<[relationship_name |-> "PersonOwnsVehicle",
           neo4j |-> [type |-> "OWNS_VEHICLE"],
           creation_rules |->
              <<[bind |-> [from_ |-> [entity_ref |-> "Person"],
                           to |-> [entity_ref |-> "Vehicle"]],
                 properties |-> <<[name |-> "role", value |-> S("owner")]>>]>>]>>]

(***************************************************************************)
(* Mapper, identity engine and relationship builder.                       *)
(***************************************************************************)
\* str(value) as used in the identity string
py_str(v) == IF v.k = "str" THEN v.s ELSE IF v.k = "none" THEN "None" ELSE "<" \o v.k \o ">"

RECURSIVE join(_, _)
join(sep, parts) ==
    IF parts = <<>> THEN ""
    ELSE IF Len(parts) = 1 THEN parts[1]
    ELSE parts[1] \o sep \o join(sep, Tail(parts))

\* the scope items of one mapping
root_items_of(canonical_doc, m) ==
    IF "foreach" \in DOMAIN m.scope
    THEN jp_values(canonical_doc, m.scope.foreach)
    ELSE <<canonical_doc>>

scope_root_of(doc_id, m, idx) ==
    doc_id \o ":" \o (IF m.mapping_id = "" THEN "map" ELSE m.mapping_id)
           \o ":" \o ToString(idx)

\* the visits of the two inner loops for one mapping
mapping_visits(doc_id, m, root_items) ==
    Concat([idx \in 1..Len(root_items) |->
        [ti \in 1..Len(m.targets) |->
            [scope_root |-> scope_root_of(doc_id, m, idx - 1), idx |-> idx - 1,
             item |-> root_items[idx], m |-> m, t |-> m.targets[ti]]]])

\* the (scope_root, item, mapping, target) visits of the three nested loops, in order
map_visits(doc_id, canonical_doc, variant) ==
    Concat([mi \in 1..Len(variant.mappings) |->
        mapping_visits(doc_id, variant.mappings[mi],
                       root_items_of(canonical_doc, variant.mappings[mi]))])

entity_ref_of(t) == IF t.entity_ref = "" THEN t.entity ELSE t.entity_ref
inst_key_of(w) == w.scope_root \o ":" \o entity_ref_of(w.t)

\* the instance of the visit's key, appended when the buffer has none
ensure_instance(instances, w) ==
    IF \E i \in 1..Len(instances) : instances[i].scope_id = inst_key_of(w)
    THEN instances
    ELSE Append(instances,
            [label |-> w.t.entity, entity_ref |-> entity_ref_of(w.t),
             scope_root |-> w.scope_root, scope_id |-> inst_key_of(w),
             properties |-> <<>>, node_id |-> ""])

\* next(i for i in instances if i.scope_id == inst_key)
instance_index(instances, inst_key) ==
    CHOOSE i \in 1..Len(instances) :
        /\ instances[i].scope_id = inst_key
        /\ \A j \in 1..(i - 1) : instances[j].scope_id # inst_key

\* inst.properties[prop] = val when val is set; then the provenance tag
assign_property(instances, at, prop, val, doc_id) ==
    [instances EXCEPT ![at].properties =
        ("source_doc_id" :> S(doc_id))
            @@ (IF val # NoneT THEN (prop :> val) @@ @ ELSE @)]

source_value(w) ==
    IF "json_path" \in DOMAIN w.m.source
    THEN jp_first(w.item, w.m.source.json_path) ELSE NoneT

assign_at(insts, w, doc_id) ==
    assign_property(insts, instance_index(insts, inst_key_of(w)),
                    w.t.property, source_value(w), doc_id)

\* the body of the innermost loop: find or create the instance, assign the property
map_target(instances, doc_id, w) == assign_at(ensure_instance(instances, w), w, doc_id)

RECURSIVE map_fold(_, _, _)
map_fold(instances, doc_id, visits) ==
    IF visits = <<>> THEN instances
    ELSE map_fold(map_target(instances, doc_id, Head(visits)), doc_id, Tail(visits))

identity_parts(inst, key_def) ==
    [i \in 1..Len(key_def.properties) |->
        py_str(Get(inst.properties, key_def.properties[i]))]

when_holds(inst, req_fields) ==
    \A i \in 1..Len(req_fields) : Get(inst.properties, req_fields[i]) # NoneT

\* the first identity key, in list order, whose when.exists properties are all set
RECURSIVE first_identity_parts(_, _)
first_identity_parts(inst, keys) ==
    IF keys = <<>> THEN <<>>
    ELSE IF when_holds(inst, RuleGet(Head(keys).when, "exists", <<>>))
         THEN identity_parts(inst, Head(keys))
         ELSE first_identity_parts(inst, Tail(keys))

\* a fallback id that names the instance by its entity reference alone
docscoped_id_by_ref(inst, doc_id) == "DOCSCOPED:" \o inst.entity_ref

docscoped_id(inst, doc_id) == "DOCSCOPED:" \o doc_id \o ":" \o inst.scope_id

\* the node_id, given the parts of the matched identity key
node_id_of(inst, doc_id, matched_kv) ==
    IF matched_kv # <<>> THEN sha256_str(join("|", matched_kv))
    ELSE docscoped_id(inst, doc_id)

_finalize_entity_id(inst, doc_id) ==
    IF inst.label \notin DOMAIN schema_registry.entity_schemas
    THEN [inst EXCEPT !.node_id = docscoped_id(inst, doc_id)]
    ELSE [inst EXCEPT !.node_id =
            node_id_of(inst, doc_id,
                first_identity_parts(inst,
                    schema_registry.entity_schemas[inst.label].identity_keys))]

finalize_all(instances, doc_id) ==
    [i \in 1..Len(instances) |-> _finalize_entity_id(instances[i], doc_id)]

_map_entities(doc_id, canonical_doc, variant) ==
    finalize_all(map_fold(<<>>, doc_id, map_visits(doc_id, canonical_doc, variant)),
                 doc_id)

\* keys of by_scope in insertion order: scope roots by first appearance
RECURSIVE scope_roots(_, _)
scope_roots(entities, seen) ==
    IF entities = <<>> THEN seen
    ELSE scope_roots(Tail(entities),
            IF \E i \in 1..Len(seen) : seen[i] = Head(entities).scope_root
            THEN seen ELSE Append(seen, Head(entities).scope_root))

\* {"source_doc": doc_id} overlaid with the rule properties that carry a value
RECURSIVE rule_props(_, _)
rule_props(props, ps) ==
    IF ps = <<>> THEN props
    ELSE rule_props(IF Head(ps).value # NoneT
                    THEN (Head(ps).name :> Head(ps).value) @@ props ELSE props,
                    Tail(ps))

\* a builder that labels each endpoint with the label of the other one
cross_rels_swapped_labels(doc_id, rs, rule, scope_root, from_nodes, to_nodes) ==
    Concat([fi \in 1..Len(from_nodes) |->
        [ti \in 1..Len(to_nodes) |->
            [rel_type |-> rs.neo4j.type,
             from_label |-> to_nodes[ti].label,
             from_id |-> from_nodes[fi].node_id,
             to_label |-> from_nodes[fi].label,
             to_id |-> to_nodes[ti].node_id,
             properties |-> rule_props([source_doc |-> S(doc_id)], rule.properties),
             source_doc |-> doc_id,
             scope_root |-> scope_root,
             name |-> rs.relationship_name]]])

\* the cross product of the from and to instances of one scope
cross_rels(doc_id, rs, rule, scope_root, from_nodes, to_nodes) ==
    Concat([fi \in 1..Len(from_nodes) |->
        [ti \in 1..Len(to_nodes) |->
            [rel_type |-> rs.neo4j.type,
             from_label |-> from_nodes[fi].label,
             from_id |-> from_nodes[fi].node_id,
             to_label |-> to_nodes[ti].label,
             to_id |-> to_nodes[ti].node_id,
             properties |-> rule_props([source_doc |-> S(doc_id)], rule.properties),
             source_doc |-> doc_id,
             scope_root |-> scope_root,
             name |-> rs.relationship_name]]])

scope_rels(doc_id, rs, rule, scope_root, scope_entities) ==
    cross_rels(doc_id, rs, rule, scope_root,
        SelectSeq(scope_entities, LAMBDA e : e.entity_ref = rule.bind.from_.entity_ref),
        SelectSeq(scope_entities, LAMBDA e : e.entity_ref = rule.bind.to.entity_ref))

\* a builder that pairs the instances of the whole document under every scope
rule_rels_any_scope(doc_id, rs, rule, entities, roots) ==
    Concat([si \in 1..Len(roots) |->
        scope_rels(doc_id, rs, rule, roots[si], entities)])

rule_rels(doc_id, rs, rule, entities, roots) ==
    Concat([si \in 1..Len(roots) |->
        scope_rels(doc_id, rs, rule, roots[si],
                   SelectSeq(entities, LAMBDA e : e.scope_root = roots[si]))])

schema_rels(doc_id, rs, entities, roots) ==
    Concat([ci \in 1..Len(rs.creation_rules) |->
        rule_rels(doc_id, rs, rs.creation_rules[ci], entities, roots)])

_build_relationships(doc_id, entities) ==
    Concat([ri \in 1..Len(schema_registry.relationship_schemas) |->
        schema_rels(doc_id, schema_registry.relationship_schemas[ri], entities,
                    scope_roots(entities, <<>>))])

(***************************************************************************)
(* Graph sinks.                                                            *)
(***************************************************************************)
\* JsonGraphSink.upsert_nodes: append one record per node
json_upsert_nodes(store, nodes) ==
    store \o [i \in 1..Len(nodes) |->
                [label |-> nodes[i].label, id |-> nodes[i].node_id,
                 properties |-> nodes[i].properties]]

\* JsonGraphSink.upsert_relationships: append one record per relationship
json_upsert_relationships(store, rels) ==
    store \o [i \in 1..Len(rels) |->
                [type |-> rels[i].rel_type,
                 from |-> [label |-> rels[i].from_label, id |-> rels[i].from_id],
                 to |-> [label |-> rels[i].to_label, id |-> rels[i].to_id],
                 properties |-> rels[i].properties]]

\* MERGE (n:label {id: id}) SET n += props
neo_merge_node(store, label, id, props) ==
    IF \E n \in store : n.label = label /\ n.id = id
    THEN {IF n.label = label /\ n.id = id
          THEN [n EXCEPT !.props = props @@ n.props] ELSE n : n \in store}
    ELSE store \cup {[label |-> label, id |-> id, props |-> props]}

RECURSIVE neo_merge_rows(_, _)
neo_merge_rows(store, rows) ==
    IF rows = <<>> THEN store
    ELSE neo_merge_rows(neo_merge_node(store, Head(rows).label, Head(rows).node_id,
                                       Head(rows).properties), Tail(rows))

\* keys of by_label in insertion order
RECURSIVE labels_of(_, _)
labels_of(nodes, seen) ==
    IF nodes = <<>> THEN seen
    ELSE LET l == Head(nodes).label
         IN  labels_of(Tail(nodes),
                IF \E i \in 1..Len(seen) : seen[i] = l THEN seen ELSE Append(seen, l))

\* the rows of the label groups, group after group
rows_by_label(nodes, labels) ==
    Concat([li \in 1..Len(labels) |-> SelectSeq(nodes, LAMBDA n : n.label = labels[li])])

\* Neo4jGraphSink.upsert_nodes: one write transaction per label group
neo_upsert_nodes(store, nodes) ==
    neo_merge_rows(store, rows_by_label(nodes, labels_of(nodes, <<>>)))

has_node(nstore, e) == \E n \in nstore : n.label = e.label /\ n.id = e.id

\* MERGE (a)-[rel:type]->(b) SET rel += props, for matched endpoints a and b
neo_merge_edge(rstore, type, from, to, props) ==
    IF \E x \in rstore : x.type = type /\ x.from = from /\ x.to = to
    THEN {IF x.type = type /\ x.from = from /\ x.to = to
          THEN [x EXCEPT !.props = props @@ x.props] ELSE x : x \in rstore}
    ELSE rstore \cup {[type |-> type, from |-> from, to |-> to, props |-> props]}

\* MATCH (a), MATCH (b), MERGE (a)-[rel:type]->(b) SET rel += props
neo_merge_rel(nstore, rstore, r) ==
    IF /\ has_node(nstore, [label |-> r.from_label, id |-> r.from_id])
       /\ has_node(nstore, [label |-> r.to_label, id |-> r.to_id])
    THEN neo_merge_edge(rstore, r.rel_type, [label |-> r.from_label, id |-> r.from_id],
                        [label |-> r.to_label, id |-> r.to_id], r.properties)
    ELSE rstore

\* Neo4jGraphSink.upsert_relationships: one write transaction per relationship
RECURSIVE neo_upsert_relationships(_, _, _)
neo_upsert_relationships(nstore, rstore, rels) ==
    IF rels = <<>> THEN rstore
    ELSE neo_upsert_relationships(nstore, neo_merge_rel(nstore, rstore, Head(rels)),
                                  Tail(rels))

\* the summaries the two sinks return
upsert_nodes_summary(sink, nodes) == [nodes_upserted |-> Len(nodes)]
upsert_relationships_summary(sink, rels) ==
    IF sink = "json" THEN [relationships_created |-> Len(rels)]
    ELSE [relationships_upserted |-> Len(rels)]

(***************************************************************************)
(* Orchestrator: IngestionPipeline.                                        *)
(***************************************************************************)
MaxIngests == 2

Pipes == {"p1", "p2"}
\* the run id each pipeline is constructed with (settings.run_id, or the uuid4
\* it draws): here every pipeline is a run of its own
RunIds == [p1 |-> "r1", p2 |-> "r2"]

\* where a sink call raises during one ingest_file call
FailPoints == {"none", "upsert_nodes", "upsert_relationships"}

RunMetrics0 == [entities_extracted |-> 0, entities_upserted |-> 0,
                relationships_created |-> 0]

ev(op, arg) == <<op, arg>>

\* the log, store and sink calls of ingest_file up to each stage, in program order
EventsRead ==
    <<ev("log", "read_document"), ev("docs.write", "pending"),
      ev("log", "read_document"), ev("log", "canonicalize")>>
EventsCanonical ==
    EventsRead \o <<ev("docs.write", "processed"), ev("log", "resolve_schema")>>
EventsResolved ==
    EventsCanonical \o <<ev("docs.write", "processed"), ev("log", "resolve_schema"),
                         ev("log", "map_entities"), ev("call", "_map_entities")>>
EventsNodes ==
    EventsResolved \o <<ev("upsert_nodes", "ok"), ev("log", "resolve_relationships"),
                        ev("call", "_build_relationships")>>
EventsQuarantine(category) ==
    <<ev("docs.write", "quarantined"), ev("quarantine", category),
      ev("docs.write_run", "warning"), ev("log", "quarantine")>>
EventsFinal(with_rels, run_status) ==
    EventsNodes \o (IF with_rels THEN <<ev("upsert_relationships", "ok")>> ELSE <<>>)
                \o <<ev("docs.write", "processed"), ev("docs.write_run", run_status)>>

\* the effects of one ingest_file call, in program order
Effects(doc_id, events, writes, quarantined, run_record, run_writes, node_batches, rel_batches, result) ==
    [doc_id |-> doc_id, events |-> events, writes |-> writes,
     quarantined |-> quarantined, run_record |-> run_record,
     run_writes |-> run_writes, node_batches |-> node_batches,
     rel_batches |-> rel_batches, result |-> result]

\* a quarantine write that leaves parse_status as it was
quarantined_doc_parse_ok(doc, category, message, details) ==
    [doc EXCEPT !.ingestion_status = "quarantined",
                !.failure = [category |-> category, message |-> message,
                             details |-> details]]

quarantined_doc(doc, category, message, details) ==
    [doc EXCEPT !.ingestion_status = "quarantined",
                !.parse_status = IF category = "parse_error" THEN "parse_error" ELSE "ok",
                !.failure = [category |-> category, message |-> message,
                             details |-> details]]

q_doc_of(doc, category, details) ==
    [document_id |-> doc.document_id, file_path |-> "",
     content_hash |-> doc.raw.content_hash, reason |-> category,
     status |-> "open", extra |-> details]

_handle_quarantine(events, writes, run_record, doc, category, message, details) ==
    Effects(doc.document_id, events \o EventsQuarantine(category),
            Append(writes, quarantined_doc(doc, category, message, details)),
            <<q_doc_of(doc, category, details)>>,
            [run_record EXCEPT !.status = "warning"],
            <<[run_record EXCEPT !.status = "warning"]>>, <<>>, <<>>, "quarantined")

\* the IngestedDocument created on read
pending_doc(doc_id, run_id, raw_doc_obj) ==
    [document_id |-> doc_id, run_id |-> run_id,
     raw |-> [file_path |-> raw_doc_obj.file_path,
              content_hash |-> raw_doc_obj.content_hash],
     canonical |-> NoneT, variant_id |-> "", parse_status |-> "ok",
     ingestion_status |-> "pending", failure |-> NoneT,
     nodes_created |-> 0, rels_created |-> 0]

node_records(doc_id, entities) ==
    [i \in 1..Len(entities) |->
        [label |-> entities[i].label, node_id |-> entities[i].node_id,
         properties |-> entities[i].properties, source_doc |-> doc_id,
         scope_root |-> entities[i].scope_root, entity_ref |-> entities[i].entity_ref]]

\* step 7, given the counts the sink returned
ingest_finalize(rr, d0, d2, d3, n_entities, nodes, rels, upserted, created) ==
    Effects(d0.document_id,
            EventsFinal(rels # <<>>, rr.status),
            <<d0, d2, d3,
              [d3 EXCEPT !.nodes_created = upserted,
                         !.rels_created = IF rels # <<>> THEN created ELSE 0]>>,
            <<>>,
            [rr EXCEPT !.metrics.entities_extracted = @ + n_entities,
                       !.metrics.entities_upserted = @ + upserted,
                       !.metrics.relationships_created =
                            IF rels # <<>> THEN @ + created ELSE @],
            <<[rr EXCEPT !.metrics.entities_extracted = @ + n_entities,
                         !.metrics.entities_upserted = @ + upserted,
                         !.metrics.relationships_created =
                              IF rels # <<>> THEN @ + created ELSE @]>>,
            <<nodes>>, IF rels # <<>> THEN <<rels>> ELSE <<>>, "success")

\* steps 5b to 7: the two sink calls, either of which may raise
ingest_upsert(sink, rr, fail_at, d0, d2, d3, n_entities, nodes, rels) ==
    IF fail_at = "upsert_nodes" THEN
        Effects(d0.document_id, Append(EventsResolved, ev("upsert_nodes", "raised")),
                <<d0, d2, d3>>, <<>>, rr, <<>>, <<>>, <<>>, "raised")
    ELSE IF rels # <<>> /\ fail_at = "upsert_relationships" THEN
        Effects(d0.document_id, Append(EventsNodes, ev("upsert_relationships", "raised")),
                <<d0, d2, d3>>, <<>>,
                [rr EXCEPT !.metrics.entities_extracted = @ + n_entities,
                           !.metrics.entities_upserted =
                              @ + RuleGet(upsert_nodes_summary(sink, nodes),
                                          "nodes_upserted", 0)],
                <<>>, <<nodes>>, <<>>, "raised")
    ELSE ingest_finalize(rr, d0, d2, d3, n_entities, nodes, rels,
            RuleGet(upsert_nodes_summary(sink, nodes), "nodes_upserted", 0),
            RuleGet(upsert_relationships_summary(sink, rels), "relationships_created", 0))

\* step 5 and 6, given the mapped entities
ingest_entities(sink, rr, fail_at, d0, d2, d3, entities) ==
    ingest_upsert(sink, rr, fail_at, d0, d2, d3, Len(entities),
                  node_records(d0.document_id, entities),
                  _build_relationships(d0.document_id, entities))

\* steps 3 and 4, given the resolver's answer
ingest_resolved(sink, rr, fail_at, d0, d2, canonical_dict, res) ==
    IF res.variant = NoneT THEN
        _handle_quarantine(EventsCanonical, <<d0, d2>>, rr, d2, "schema_not_found",
                           "No matching schema variant found", res.debug)
    ELSE ingest_entities(sink, rr, fail_at, d0, d2,
            [d2 EXCEPT !.variant_id = res.variant.variant_id],
            _map_entities(d0.document_id, canonical_dict, res.variant))

ingest_canonical_dict(sink, rr, fail_at, d0, d2, canonical_dict) ==
    ingest_resolved(sink, rr, fail_at, d0, d2, canonical_dict,
        resolve_variant_impl(canonical_dict, schema_registry.register_schemas))

\* step 2, given the canonical document
ingest_canonical(sink, rr, fail_at, d0, canonical_obj) ==
    IF canonical_obj.parse_error # "" THEN
        _handle_quarantine(EventsRead, <<d0>>, rr,
            [d0 EXCEPT !.canonical = [hash |-> canonical_obj.canonical_hash]],
            "parse_error", canonical_obj.parse_error, [raw |-> d0.raw.file_path])
    ELSE ingest_canonical_dict(sink, rr, fail_at, d0,
            [d0 EXCEPT !.canonical = [hash |-> canonical_obj.canonical_hash],
                       !.ingestion_status = "processed"],
            D([meta |-> D(canonical_obj.meta), data |-> canonical_obj.data]))

\* step 1, given the raw document
ingest_raw(sink, rr, fail_at, raw_doc_obj, doc_id) ==
    ingest_canonical(sink, rr, fail_at, pending_doc(doc_id, rr.run_id, raw_doc_obj),
                     canonicalize(raw_doc_obj))

ingest_file(sink, run_record, file_path, fail_at) ==
    IF file_path \notin DOMAIN FileBytes THEN
        Effects("", <<ev("log", "read_document"), ev("log", "read_document:error")>>,
                <<>>, <<>>, run_record, <<>>, <<>>, <<>>, "error")
    ELSE ingest_raw(sink, run_record, fail_at, read_raw_document(file_path),
                    uuid5(file_path \o run_record.run_id))

\* DocumentStore.write: upsert by document_id
RECURSIVE docs_write(_, _)
docs_write(store, records) ==
    IF records = <<>> THEN store
    ELSE docs_write((Head(records).document_id :> Head(records)) @@ store, Tail(records))

\* DocumentStore.write_run: upsert by run_id
RECURSIVE write_run(_, _)
write_run(store, records) ==
    IF records = <<>> THEN store
    ELSE write_run((Head(records).run_id :> Head(records)) @@ store, Tail(records))

\* QuarantineStore.quarantine: drop the open records of the same file_path, insert
RECURSIVE quarantine_insert(_, _)
quarantine_insert(store, records) ==
    IF records = <<>> THEN store
    ELSE LET record == Head(records)
             kept == IF record.file_path # ""
                     THEN SelectSeq(store, LAMBDA q :
                            ~(q.file_path = record.file_path /\ q.status = "open"))
                     ELSE store
         IN  quarantine_insert(Append(kept, record), Tail(records))

NoCall == [op |-> "none"]
NoLast == [pipe |-> "", file_path |-> "", fail_at |-> "none",
           eff |-> Effects("", <<>>, <<>>, <<>>, NoneT, <<>>, <<>>, <<>>, "none"),
           before |-> [docs |-> <<>>]]

PipelineInit ==
    /\ \A p \in Pipes : pipes[p].state = "none" /\ pipes[p].run_record = NoneT
    /\ docs = <<>>
    /\ runs = <<>>
    /\ quarantine = <<>>
    /\ json_nodes = <<>>
    /\ json_rels = <<>>
    /\ neo_nodes = {}
    /\ neo_rels = {}
    /\ last = NoLast
    /\ ingests = 0

Init ==
    /\ graph_sink \in {"json", "neo4j"}
    /\ pipes = [p \in Pipes |-> [state |-> "none", run_id |-> RunIds[p],
                                 run_record |-> NoneT]]
    /\ PipelineInit
    /\ call = NoCall

\* IngestionPipeline.__init__
NewPipeline(p) ==
    /\ pipes[p].state = "none"
    /\ LET run_record == [run_id |-> pipes[p].run_id, status |-> "running",
                          metrics |-> RunMetrics0]
       IN  /\ pipes' = [pipes EXCEPT ![p].state = "open", ![p].run_record = run_record]
           /\ runs' = write_run(runs, <<run_record>>)
    /\ UNCHANGED <<graph_sink, docs, quarantine, json_nodes, json_rels, neo_nodes,
                   neo_rels, last, ingests, call>>

\* IngestionPipeline.ingest_file
IngestFile(p, file_path, fail_at) ==
    /\ pipes[p].state = "open"
    /\ ingests < MaxIngests
    /\ \E eff \in {ingest_file(graph_sink, pipes[p].run_record, file_path, fail_at)} :
       LET nodes == Concat(eff.node_batches)
           rels == Concat(eff.rel_batches)
       IN  /\ docs' = docs_write(docs, eff.writes)
           /\ quarantine' = quarantine_insert(quarantine, eff.quarantined)
           /\ runs' = write_run(runs, eff.run_writes)
           /\ pipes' = [pipes EXCEPT ![p].run_record = eff.run_record]
           /\ IF graph_sink = "json"
              THEN /\ json_nodes' = json_upsert_nodes(json_nodes, nodes)
                   /\ json_rels' = json_upsert_relationships(json_rels, rels)
                   /\ UNCHANGED <<neo_nodes, neo_rels>>
              ELSE /\ neo_nodes' = neo_upsert_nodes(neo_nodes, nodes)
                   /\ neo_rels' = neo_upsert_relationships(neo_nodes', neo_rels, rels)
                   /\ UNCHANGED <<json_nodes, json_rels>>
           /\ last' = [pipe |-> p, file_path |-> file_path, fail_at |-> fail_at,
                       eff |-> eff, before |-> [docs |-> docs]]
    /\ ingests' = ingests + 1
    /\ UNCHANGED <<graph_sink, call>>

\* IngestionPipeline.close
Close(p) ==
    /\ pipes[p].state = "open"
    /\ LET run_record == [pipes[p].run_record EXCEPT !.status = "success"]
       IN  /\ pipes' = [pipes EXCEPT ![p].state = "closed", ![p].run_record = run_record]
           /\ runs' = write_run(runs, <<run_record>>)
    /\ UNCHANGED <<graph_sink, docs, quarantine, json_nodes, json_rels, neo_nodes,
                   neo_rels, last, ingests, call>>

Next ==
    \/ \E p \in Pipes : NewPipeline(p)
    \/ \E p \in Pipes : \E f \in FilePaths : \E x \in FailPoints : IngestFile(p, f, x)
    \/ \E p \in Pipes : Close(p)

Spec == Init /\ [][Next]_vars

TypeOK == ingests \in 0..MaxIngests

\* a batch of answers about one person, organisations and vehicles, among them
\* two files of equal bytes and a file that lists one vehicle twice
IdentityFiles == {"f_a", "f_name", "f_name2", "f_cars", "f_org", "f_org1"}

NextIdentity ==
    \/ \E p \in Pipes : NewPipeline(p)
    \/ \E p \in Pipes : \E f \in IdentityFiles : \E x \in FailPoints : IngestFile(p, f, x)
    \/ \E p \in Pipes : Close(p)

SpecIdentity == Init /\ [][NextIdentity]_vars

\* a batch that exercises the mapper: a property written twice, one entity mapped
\* under two mapping ids, a required mapping without a value, two different
\* vehicles, and addresses without their identity property
MappingFiles == {"f_dup", "f_split", "f_req", "f_cars2", "f_addr"}

NextMapping ==
    \/ \E p \in Pipes : NewPipeline(p)
    \/ \E p \in Pipes : \E f \in MappingFiles : \E x \in FailPoints : IngestFile(p, f, x)
    \/ \E p \in Pipes : Close(p)

SpecMapping == Init /\ [][NextMapping]_vars

(***************************************************************************)
(* The variant resolver on its own: a registry of two register schemas is  *)
(* filled with up to MaxVariants variants drawn from PredPool and then     *)
(* asked to resolve a document of ResolveDocs.                             *)
(***************************************************************************)
MaxVariants == 3

PA == P(<<"data", "a">>)
PB == P(<<"data", "b">>)
Equals(path, value) == [type |-> "json_equals", path |-> path, value |-> value]

PredPool ==
    {[all |-> <<>>, none |-> <<>>],
     [all |-> <<Exists(PA)>>, none |-> <<>>],
     [all |-> <<Exists(PA), Equals(PA, S("x"))>>, none |-> <<>>],
     [all |-> <<Exists(PB)>>, none |-> <<Exists(PA)>>],
     [all |-> <<Equals(P(<<"meta", "registry_code">>), S("EIS"))>>, none |-> <<>>],
     [all |-> <<Exists(PA), Exists(PB)>>, none |-> <<Equals(PB, S("y"))>>]}

ResolveDocs ==
    {D([meta |-> D(m), data |-> D(a @@ b)]) :
        m \in {<<>>, [registry_code |-> S("EIS")]},
        a \in {<<>>, [a |-> S("x")], [a |-> S("y")]},
        b \in {<<>>, [b |-> S("x")], [b |-> S("y")]}}

NoResolve == [op |-> "resolve_variant",
              register_schemas |-> <<RegisterSchema("R1", <<>>), RegisterSchema("R2", <<>>)>>,
              canonical_doc |-> NoneT, done |-> FALSE,
              out |-> [variant |-> NoneT, debug |-> <<>>]]

InitResolve ==
    /\ graph_sink = "json"
    /\ pipes = [p \in Pipes |-> [state |-> "none", run_id |-> RunIds[p],
                                 run_record |-> NoneT]]
    /\ PipelineInit
    /\ call = NoResolve

\* a register schema gains a variant: the second one at any time, the first one
\* only while the second is empty
AddVariant(r, pred) ==
    /\ call.op = "resolve_variant"
    /\ ~call.done
    /\ LET rs == call.register_schemas
           n == Len(rs[1].variants) + Len(rs[2].variants)
       IN  /\ n < MaxVariants
           /\ r = 1 => rs[2].variants = <<>>
           /\ call' = [call EXCEPT !.register_schemas[r].variants =
                        Append(@, [variant_id |-> "v" \o ToString(n + 1),
                                   match_predicate |-> pred, mappings |-> <<>>])]
    /\ UNCHANGED pipeline_vars

\* BaseSchemaRegistry.resolve_variant
ResolveVariant(d) ==
    /\ call.op = "resolve_variant"
    /\ ~call.done
    /\ call' = [call EXCEPT !.done = TRUE, !.canonical_doc = d,
                  !.out = resolve_variant_impl(d, call.register_schemas)]
    /\ UNCHANGED pipeline_vars

NextResolve ==
    \/ \E r \in 1..2 : \E pred \in PredPool : AddVariant(r, pred)
    \/ \E d \in ResolveDocs : ResolveVariant(d)

SpecResolve == InitResolve /\ [][NextResolve]_vars

(***************************************************************************)
(* Properties of the variant resolver.                                     *)
(***************************************************************************)
\* the variants of the registry under test and the verdict of each predicate
ResolvePairs == all_variants(call.register_schemas)
ResolveEvals ==
    [i \in 1..Len(ResolvePairs) |->
        eval_predicate(call.canonical_doc, ResolvePairs[i].v.match_predicate)]
Matched(e) == {i \in DOMAIN e : e[i].matched}
\* i matched and every other matched variant scores strictly lower
StrictTop(e, i) ==
    /\ e[i].matched
    /\ \A j \in Matched(e) \ {i} : e[j].score < e[i].score
\* the matched variants of the top score
Top(e) == {i \in Matched(e) : \A j \in Matched(e) : e[j].score <= e[i].score}

ResolveCorrect(pairs, e, top, out) ==
    /\ \A i \in DOMAIN e : (out.variant = pairs[i].v) <=> StrictTop(e, i)
    /\ Cardinality(top) >= 2 =>
          /\ out.variant = NoneT
          /\ "ambiguity" \in DOMAIN out.debug
          /\ Len(out.debug.ambiguity) = Cardinality(top)
          /\ {out.debug.ambiguity[k] : k \in 1..Len(out.debug.ambiguity)}
                = {pairs[i].v.variant_id : i \in top}
    /\ Cardinality(top) < 2 => "ambiguity" \notin DOMAIN out.debug

\* C1: resolve_variant returns variant v exactly when v matched and every other
\* matched variant has a strictly lower score; when two or more matched variants
\* share the top score it returns no variant and reports exactly the ids of the
\* tied variants as the ambiguity; otherwise it reports no ambiguity.
C1_ResolveVariant ==
    (call.op = "resolve_variant" /\ call.done) =>
        \A e \in {ResolveEvals} : ResolveCorrect(ResolvePairs, e, Top(e), call.out)

\* a call that found two variants tied at the top score above a third matched one
C1_Witness ==
    /\ call.op = "resolve_variant" /\ call.done
    /\ Cardinality(Top(ResolveEvals)) = 2
    /\ Cardinality(Matched(ResolveEvals)) = 3
    /\ call.out.variant = NoneT

(***************************************************************************)
(* Properties of the orchestrator.  "last" is the most recent ingest_file  *)
(* call; a step with ingests' # ingests is one ingest_file call.           *)
(***************************************************************************)
Range(seq) == {seq[i] : i \in 1..Len(seq)}
Stored == {docs[d] : d \in DOMAIN docs}

\* what the stages make of a file, for stating what a call should have done
CanonicalOf(f) == canonicalize(read_raw_document(f))
CanonicalDictOf(f) == D([meta |-> D(CanonicalOf(f).meta), data |-> CanonicalOf(f).data])
ResolutionOf(f) == resolve_variant_impl(CanonicalDictOf(f), schema_registry.register_schemas)
Parses(f) == f \in DOMAIN FileBytes /\ CanonicalOf(f).parse_error = ""
MappedOf(f, run_id) ==
    IF Parses(f) /\ ResolutionOf(f).variant # NoneT
    THEN _map_entities(uuid5(f \o run_id), CanonicalDictOf(f), ResolutionOf(f).variant)
    ELSE <<>>

\* C2: a document whose resolution found two or more variants tied at the top
\* score is quarantined with category variant_ambiguous, one that matched no
\* variant with category schema_not_found, and either quarantine record carries
\* the resolver's diagnostic.
C2_AmbiguousCategory ==
    (Parses(last.file_path) /\ ResolutionOf(last.file_path).variant = NoneT) =>
        /\ last.eff.result = "quarantined"
        /\ \A q \in Range(last.eff.quarantined) :
              /\ q.extra = ResolutionOf(last.file_path).debug
              /\ q.reason = IF "ambiguity" \in DOMAIN ResolutionOf(last.file_path).debug
                            THEN "variant_ambiguous" ELSE "schema_not_found"

ImmutableProps(label) ==
    IF label \in DOMAIN schema_registry.entity_schemas
    THEN schema_registry.entity_schemas[label].immutable ELSE {}

\* C3: when a document resolves to the node_id of an existing node and presents
\* a different value for an immutable property the node carries, the node keeps
\* its value and the document is stored quarantined with immutable_conflict.
C3_ImmutableConflict ==
    [][(graph_sink = "neo4j" /\ ingests' # ingests) =>
        \A n \in neo_nodes :
        \A e \in Range(MappedOf(last'.file_path, pipes[last'.pipe].run_id)) :
        \A pr \in (ImmutableProps(n.label) \cap DOMAIN n.props) \cap DOMAIN e.properties :
            (e.label = n.label /\ e.node_id = n.id /\ e.properties[pr] # n.props[pr]) =>
                /\ \E m \in neo_nodes' :
                      m.label = n.label /\ m.id = n.id /\ m.props[pr] = n.props[pr]
                /\ docs'[last'.eff.doc_id].ingestion_status = "quarantined"
                /\ docs'[last'.eff.doc_id].failure.category = "immutable_conflict"]_vars

\* C4: ingesting a file again right after it was ingested successfully leaves
\* the graph sink as it was: no node, relationship or property changes.
C4_IdempotentIngest ==
    [][(/\ ingests' # ingests
        /\ last.eff.result = "success"
        /\ last'.eff.result = "success"
        /\ last'.file_path = last.file_path) =>
            UNCHANGED <<json_nodes, json_rels, neo_nodes, neo_rels>>]_vars

\* C5: when the document store already holds a processed record of the same raw
\* content hash, ingest_file skips the document: it does not canonicalize, map
\* or write to the graph sink.
C5_SkipProcessed ==
    [][(/\ ingests' # ingests
        /\ last'.file_path \in DOMAIN FileBytes
        /\ \E d \in Stored :
              /\ d.raw.content_hash = read_raw_document(last'.file_path).content_hash
              /\ d.ingestion_status = "processed") =>
            /\ ev("log", "canonicalize") \notin Range(last'.eff.events)
            /\ ev("log", "map_entities") \notin Range(last'.eff.events)
            /\ last'.eff.node_batches = <<>>
            /\ last'.eff.rel_batches = <<>>
            /\ UNCHANGED <<json_nodes, json_rels, neo_nodes, neo_rels>>]_vars

TerminalStatuses == {"processed", "quarantined", "failed"}

\* C6: within one ingest_file call, once the document has been written with a
\* terminal status no later write of the call stores another status.
C6_TerminalStatus ==
    \A i \in 1..Len(last.eff.writes) : \A j \in i..Len(last.eff.writes) :
        last.eff.writes[i].ingestion_status \in TerminalStatuses =>
            last.eff.writes[j].ingestion_status = last.eff.writes[i].ingestion_status

\* C7: once a pipeline is closed, the stored run is warning if a document of
\* the run is stored quarantined and success otherwise.
C7_RunStatus ==
    \A p \in Pipes : pipes[p].state = "closed" =>
        runs[pipes[p].run_id].status =
            IF \E d \in Stored : d.run_id = pipes[p].run_id
                                 /\ d.ingestion_status = "quarantined"
            THEN "warning" ELSE "success"

\* C8: when a sink call raised during the last ingest_file call, the document
\* is stored failed (and so is not left stored as processed).
C8_SinkErrorFailed ==
    last.eff.result = "raised" => docs[last.eff.doc_id].ingestion_status = "failed"

\* does the graph hold a node of this label and id
GraphHasNode(label, id) ==
    IF graph_sink = "json"
    THEN \E n \in Range(json_nodes) : n.label = label /\ n.id = id
    ELSE \E n \in neo_nodes : n.label = label /\ n.id = id

\* C9: both endpoints of every relationship record a completed
\* upsert_relationships call received exist in the graph, label and id.
C9_EndpointsExist ==
    \A b \in Range(last.eff.rel_batches) : \A r \in Range(b) :
        GraphHasNode(r.from_label, r.from_id) /\ GraphHasNode(r.to_label, r.to_id)

\* a call that handed a relationship to the sink
C9_Witness ==
    /\ last.eff.result = "success"
    /\ last.eff.rel_batches # <<>>
    /\ \E b \in Range(last.eff.rel_batches) : b # <<>>

(***************************************************************************)
(* The graph sink on its own: node batches and relationship batches are    *)
(* handed to the configured sink in any order, up to MaxSinkCalls calls.   *)
(***************************************************************************)
MaxSinkCalls == 3

NodeRec(label, id, props) == [label |-> label, node_id |-> id, properties |-> props]
RelRec(type, from, to) ==
    [rel_type |-> type, from_label |-> from.label, from_id |-> from.node_id,
     to_label |-> to.label, to_id |-> to.node_id,
     properties |-> [role |-> S("owner")]]

SinkPerson == NodeRec("Person", "n1", [rnokpp |-> S("1")])
SinkOwner == NodeRec("Person", "n2", [rnokpp |-> S("2")])
SinkVehicle == NodeRec("Vehicle", "n3", [vin |-> S("v")])
SinkNodeBatches ==
    {<<SinkPerson>>, <<SinkVehicle>>, <<SinkPerson, SinkVehicle>>,
     <<SinkOwner, SinkVehicle>>}
SinkRelBatches ==
    {<<RelRec("OWNS_VEHICLE", SinkPerson, SinkVehicle)>>,
     <<RelRec("OWNS_VEHICLE", SinkOwner, SinkVehicle)>>}

NoSink == [op |-> "sink", applied |-> <<>>]

InitSink ==
    /\ graph_sink \in {"json", "neo4j"}
    /\ pipes = [p \in Pipes |-> [state |-> "none", run_id |-> RunIds[p],
                                 run_record |-> NoneT]]
    /\ PipelineInit
    /\ call = NoSink

\* GraphSink.upsert_nodes of the configured sink
UpsertNodes(nodes) ==
    /\ call.op = "sink"
    /\ Len(call.applied) < MaxSinkCalls
    /\ IF graph_sink = "json"
       THEN /\ json_nodes' = json_upsert_nodes(json_nodes, nodes)
            /\ UNCHANGED neo_nodes
       ELSE /\ neo_nodes' = neo_upsert_nodes(neo_nodes, nodes)
            /\ UNCHANGED json_nodes
    /\ call' = [call EXCEPT !.applied = Append(@, [kind |-> "nodes", batch |-> nodes])]
    /\ UNCHANGED <<graph_sink, pipes, docs, runs, quarantine, json_rels, neo_rels,
                   last, ingests>>

\* GraphSink.upsert_relationships of the configured sink
UpsertRelationships(rels) ==
    /\ call.op = "sink"
    /\ Len(call.applied) < MaxSinkCalls
    /\ IF graph_sink = "json"
       THEN /\ json_rels' = json_upsert_relationships(json_rels, rels)
            /\ UNCHANGED neo_rels
       ELSE /\ neo_rels' = neo_upsert_relationships(neo_nodes, neo_rels, rels)
            /\ UNCHANGED json_rels
    /\ call' = [call EXCEPT !.applied = Append(@, [kind |-> "rels", batch |-> rels])]
    /\ UNCHANGED <<graph_sink, pipes, docs, runs, quarantine, json_nodes, neo_nodes,
                   last, ingests>>

NextSink ==
    \/ \E nodes \in SinkNodeBatches : UpsertNodes(nodes)
    \/ \E rels \in SinkRelBatches : UpsertRelationships(rels)

SpecSink == InitSink /\ [][NextSink]_vars

\* the nodes and edges a sink holds, as sets
GraphOf(sink, jn, jr, nn, nr) ==
    IF sink = "json" THEN [nodes |-> Range(jn), edges |-> Range(jr)]
    ELSE [nodes |-> nn, edges |-> nr]

\* the graph an empty sink holds after a node batch and then a relationship batch
NodesThenRels(sink, nodes, rels) ==
    GraphOf(sink, json_upsert_nodes(<<>>, nodes), json_upsert_relationships(<<>>, rels),
            neo_upsert_nodes({}, nodes),
            neo_upsert_relationships(neo_upsert_nodes({}, nodes), {}, rels))

\* C10: after upsert_relationships both endpoints of every relationship of the
\* batch exist in the graph, a missing one having been created as a bare node;
\* and a relationship batch followed by the node batch of its endpoints leaves
\* the nodes and edges that the node batch followed by the relationship batch
\* leaves.
C10_SoftCreate ==
    call.op = "sink" =>
        /\ (Len(call.applied) > 0 /\ call.applied[Len(call.applied)].kind = "rels") =>
              \A r \in Range(call.applied[Len(call.applied)].batch) :
                  GraphHasNode(r.from_label, r.from_id) /\ GraphHasNode(r.to_label, r.to_id)
        /\ (/\ Len(call.applied) = 2
            /\ call.applied[1].kind = "rels"
            /\ call.applied[2].kind = "nodes") =>
              GraphOf(graph_sink, json_nodes, json_rels, neo_nodes, neo_rels) =
                  NodesThenRels(graph_sink, call.applied[2].batch, call.applied[1].batch)

(***************************************************************************)
(* Properties of identity, relationships and canonical form, over the      *)
(* batch of IdentityFiles.                                                 *)
(***************************************************************************)
RelTuple(r) == <<r.from_label, r.from_id, r.rel_type, r.to_label, r.to_id>>
StoredRelTuple(x) == <<x.from.label, x.from.id, x.type, x.to.label, x.to.id>>

\* C11: the relationship list built for one document holds no two records of
\* equal (from_label, from_id, type, to_label, to_id), and the graph sink holds
\* at most one relationship per such tuple.
C11_UniqueRelationships ==
    /\ \A b \in Range(last.eff.rel_batches) : \A i, j \in 1..Len(b) :
          RelTuple(b[i]) = RelTuple(b[j]) => i = j
    /\ \A i, j \in 1..Len(json_rels) :
          StoredRelTuple(json_rels[i]) = StoredRelTuple(json_rels[j]) => i = j
    /\ \A x, y \in neo_rels : StoredRelTuple(x) = StoredRelTuple(y) => x = y

\* the nodes a sink holds, as label, id and properties
NodeView(sink, jn, nn) ==
    IF sink = "json"
    THEN {[label |-> n.label, id |-> n.id, props |-> n.properties] : n \in Range(jn)}
    ELSE nn

\* the identity-key values that identify an instance of this label and
\* properties, <<>> when it falls back to a doc-scoped id
IdentityOf(label, props) ==
    IF label \notin DOMAIN schema_registry.entity_schemas THEN <<>>
    ELSE first_identity_parts([properties |-> props],
                              schema_registry.entity_schemas[label].identity_keys)

\* C12: a node record that falls back to a doc-scoped id shares its id with
\* another record of the batch only under the same instance key, and with a
\* node already in the graph only if that node came from the same document;
\* so the doc-scoped nodes of a second, byte-identical document stay apart.
C12_DocScopedDistinct ==
    [][ingests' # ingests =>
        \A b \in Range(last'.eff.node_batches) : \A i \in 1..Len(b) :
            IdentityOf(b[i].label, b[i].properties) = <<>> =>
                /\ \A j \in 1..Len(b) : b[j].node_id = b[i].node_id =>
                      b[j].scope_root = b[i].scope_root /\ b[j].entity_ref = b[i].entity_ref
                /\ \A m \in NodeView(graph_sink, json_nodes, neo_nodes) :
                      m.id = b[i].node_id =>
                          Get(m.props, "source_doc_id") = S(b[i].source_doc)]_vars

\* a second document of the same bytes ingested while the graph holds the
\* doc-scoped node of the first
C12_Witness ==
    /\ last.eff.result = "success"
    /\ \E b \in Range(last.eff.node_batches) : \E i \in 1..Len(b) :
          IdentityOf(b[i].label, b[i].properties) = <<>>
    /\ \E d \in Stored :
          /\ d.document_id # last.eff.doc_id
          /\ d.raw.content_hash = docs[last.eff.doc_id].raw.content_hash
          /\ \E m \in NodeView(graph_sink, json_nodes, neo_nodes) :
                /\ Get(m.props, "source_doc_id") = S(d.document_id)
                /\ IdentityOf(m.label, m.props) = <<>>

\* C13: the node_id of an identified instance is the SHA-256 of its label, "|"
\* and its identity string, so identified nodes of different labels and equal
\* identity values have different ids.
C13_LabelInNodeId ==
    /\ \A b \in Range(last.eff.node_batches) : \A i \in 1..Len(b) :
          IdentityOf(b[i].label, b[i].properties) # <<>> =>
              b[i].node_id = sha256_str(b[i].label \o "|"
                                \o join("|", IdentityOf(b[i].label, b[i].properties)))
    /\ \A n, m \in NodeView(graph_sink, json_nodes, neo_nodes) :
          (/\ n.label # m.label
           /\ IdentityOf(n.label, n.props) # <<>>
           /\ IdentityOf(n.label, n.props) = IdentityOf(m.label, m.props)) => n.id # m.id

\* C15: stored documents of equal raw content hash (and the same content type)
\* carry the same canonical hash, whatever their file path and run.
C15_CanonicalHashStable ==
    \A d1, d2 \in Stored :
        (/\ d1.raw.content_hash = d2.raw.content_hash
         /\ d1.canonical # NoneT /\ d2.canonical # NoneT) =>
            d1.canonical.hash = d2.canonical.hash

\* identity keys in ascending order of priority
RECURSIVE by_priority(_)
by_priority(keys) ==
    IF keys = <<>> THEN <<>>
    ELSE LET k == CHOOSE i \in 1..Len(keys) :
                    \A j \in 1..Len(keys) :
                        keys[i].priority < keys[j].priority
                        \/ (keys[i].priority = keys[j].priority /\ i <= j)
         IN  <<keys[k]>> \o by_priority([j \in 1..(Len(keys) - 1) |->
                                            IF j < k THEN keys[j] ELSE keys[j + 1]])

\* C20: the node_id of an instance whose label has an entity schema is computed
\* from the first identity key, in ascending priority, whose when.exists
\* properties are all set on the instance.
C20_PriorityOrder ==
    \A b \in Range(last.eff.node_batches) : \A i \in 1..Len(b) :
        b[i].label \in DOMAIN schema_registry.entity_schemas =>
            b[i].node_id =
                node_id_of([scope_id |-> b[i].scope_root \o ":" \o b[i].entity_ref],
                           b[i].source_doc,
                           first_identity_parts([properties |-> b[i].properties],
                               by_priority(schema_registry.entity_schemas[b[i].label]
                                                                .identity_keys)))

(***************************************************************************)
(* Properties of the stores and of the order of the stages.                *)
(***************************************************************************)
\* C16: the quarantine store holds at most one open record per file path.
C16_OneOpenPerFile ==
    \A i, j \in 1..Len(quarantine) :
        (/\ quarantine[i].status = "open" /\ quarantine[j].status = "open"
         /\ docs[quarantine[i].document_id].raw.file_path
                = docs[quarantine[j].document_id].raw.file_path) => i = j

\* C17: a successful ingest_file stores on the document, and adds to the run
\* metrics, the number of nodes and the number of relationships the sink wrote
\* for the document.
C17_WriteSummary ==
    [][(ingests' # ingests /\ last'.eff.result = "success") =>
        /\ docs'[last'.eff.doc_id].nodes_created = Len(Concat(last'.eff.node_batches))
        /\ docs'[last'.eff.doc_id].rels_created = Len(Concat(last'.eff.rel_batches))
        /\ pipes'[last'.pipe].run_record.metrics.entities_upserted =
              pipes[last'.pipe].run_record.metrics.entities_upserted
                  + Len(Concat(last'.eff.node_batches))
        /\ pipes'[last'.pipe].run_record.metrics.relationships_created =
              pipes[last'.pipe].run_record.metrics.relationships_created
                  + Len(Concat(last'.eff.rel_batches))]_vars

SinkWrite(e) == e[1] \in {"upsert_nodes", "upsert_relationships"}
Before(events, i, e) == \E j \in 1..(i - 1) : events[j] = e

\* C18: within one ingest_file call every stage follows the one before it:
\* canonicalize, resolve, map, build relationships, upsert; and in a successful
\* call the document's final status is not written before a sink write.
C18_StageOrder ==
    \A i \in 1..Len(last.eff.events) :
        /\ last.eff.events[i] = ev("log", "resolve_schema") =>
              Before(last.eff.events, i, ev("log", "canonicalize"))
        /\ last.eff.events[i] = ev("call", "_map_entities") =>
              Before(last.eff.events, i, ev("log", "resolve_schema"))
        /\ last.eff.events[i] = ev("call", "_build_relationships") =>
              Before(last.eff.events, i, ev("call", "_map_entities"))
        /\ SinkWrite(last.eff.events[i]) =>
              /\ Before(last.eff.events, i, ev("call", "_build_relationships"))
              /\ last.eff.result = "success" =>
                    ~Before(last.eff.events, i,
                            ev("docs.write", docs[last.eff.doc_id].ingestion_status))

\* C19: a call that ends in quarantine hands nothing to the graph sink; and a
\* document that fails to parse is stored with parse_status parse_error,
\* quarantined with category parse_error, with one quarantine record, before
\* any resolving, mapping or upserting.
C19_QuarantineNoGraphWrite ==
    /\ last.eff.result = "quarantined" =>
          /\ last.eff.node_batches = <<>> /\ last.eff.rel_batches = <<>>
          /\ \A i \in 1..Len(last.eff.events) : ~SinkWrite(last.eff.events[i])
          /\ docs[last.eff.doc_id].ingestion_status = "quarantined"
    /\ (last.file_path \in DOMAIN FileBytes /\ ~Parses(last.file_path)) =>
          /\ last.eff.result = "quarantined"
          /\ docs[last.eff.doc_id].parse_status = "parse_error"
          /\ docs[last.eff.doc_id].failure.category = "parse_error"
          /\ Len(last.eff.quarantined) = 1
          /\ last.eff.quarantined[1].reason = "parse_error"
          /\ \A i \in 1..Len(last.eff.events) :
                last.eff.events[i] \notin {ev("log", "resolve_schema"),
                                           ev("call", "_map_entities"),
                                           ev("call", "_build_relationships")}

\* a call that quarantined a file that does not parse
C19_Witness ==
    /\ last.file_path \in DOMAIN FileBytes
    /\ ~Parses(last.file_path)
    /\ last.eff.result = "quarantined"
    /\ Len(quarantine) > 0

(***************************************************************************)
(* The predicate engine on its own: a predicate over one document grows    *)
(* and shrinks by one rule at a time, up to MaxRules rules, and is         *)
(* evaluated after every change.                                           *)
(***************************************************************************)
MaxRules == 2

RulePool ==
    {Exists(PA), Exists(PB), Equals(PA, S("x")),
     [type |-> "", path |-> PA, value |-> NoneT],
     [type |-> "json_size", path |-> PA, value |-> NoneT]}

PredDocs ==
    {D([meta |-> D(<<>>), data |-> D(a @@ b)]) :
        a \in {<<>>, [a |-> S("x")], [a |-> S("y")]},
        b \in {<<>>, [b |-> S("x")]}}

EmptyPred == [all |-> <<>>, none |-> <<>>]

InsertAt(seq, pos, x) == SubSeq(seq, 1, pos - 1) \o <<x>> \o SubSeq(seq, pos, Len(seq))
RemoveAt(seq, pos) == SubSeq(seq, 1, pos - 1) \o SubSeq(seq, pos + 1, Len(seq))

InitPredicate ==
    /\ graph_sink = "json"
    /\ pipes = [p \in Pipes |-> [state |-> "none", run_id |-> RunIds[p],
                                 run_record |-> NoneT]]
    /\ PipelineInit
    /\ \E d \in PredDocs :
          call = [op |-> "eval_predicate", doc |-> d, pred |-> EmptyPred,
                  out |-> eval_predicate(d, EmptyPred),
                  prev_out |-> eval_predicate(d, EmptyPred),
                  change |-> "none", clause |-> ""]

\* eval_predicate on the predicate that the change leaves
Evaluate(pred, change, clause) ==
    call' = [call EXCEPT !.pred = pred, !.out = eval_predicate(call.doc, pred),
                         !.prev_out = call.out, !.change = change, !.clause = clause]

AddRule(clause, pos, rule) ==
    /\ call.op = "eval_predicate"
    /\ Len(call.pred.all) + Len(call.pred.none) < MaxRules
    /\ pos \in 1..(Len(call.pred[clause]) + 1)
    /\ Evaluate([call.pred EXCEPT ![clause] = InsertAt(@, pos, rule)], "added", clause)
    /\ UNCHANGED pipeline_vars

RemoveRule(clause, pos) ==
    /\ call.op = "eval_predicate"
    /\ pos \in 1..Len(call.pred[clause])
    /\ Evaluate([call.pred EXCEPT ![clause] = RemoveAt(@, pos)], "removed", clause)
    /\ UNCHANGED pipeline_vars

NextPredicate ==
    \/ \E clause \in {"all", "none"} : \E pos \in 1..(MaxRules + 1) : \E rule \in RulePool :
          AddRule(clause, pos, rule)
    \/ \E clause \in {"all", "none"} : \E pos \in 1..MaxRules : RemoveRule(clause, pos)

SpecPredicate == InitPredicate /\ [][NextPredicate]_vars

\* C14: adding a rule to a predicate never increases the score eval_predicate
\* returns for a document, and removing a rule never decreases it.
C14_ScoreMonotone ==
    call.op = "eval_predicate" =>
        /\ call.change = "added" => call.out.score <= call.prev_out.score
        /\ call.change = "removed" => call.out.score >= call.prev_out.score

\* C14 as amended: adding a rule raises the score by at most one, and not at
\* all when the rule joins the "none" clause, and never turns a non-match into a
\* match; removing a rule lowers the score by at most one and never turns a
\* match into a non-match.
C14_ScoreStep ==
    call.op = "eval_predicate" =>
        /\ call.change = "added" =>
              /\ call.out.score <= call.prev_out.score + 1
              /\ call.clause = "none" => call.out.score = call.prev_out.score
              /\ call.out.matched => call.prev_out.matched
        /\ call.change = "removed" =>
              /\ call.out.score >= call.prev_out.score - 1
              /\ call.prev_out.matched => call.out.matched

\* a satisfied rule joined the "all" clause of a matching predicate
C14_Witness ==
    /\ call.op = "eval_predicate"
    /\ call.change = "added" /\ call.clause = "all"
    /\ Len(call.pred.all) = 2
    /\ call.out.matched
    /\ call.out.score = call.prev_out.score + 1

(***************************************************************************)
(* Properties of the mapper (SpecMapping).                                 *)
(***************************************************************************)
\* the visits of the mapper's loops for the file of the last call, <<>> when
\* the file did not reach the mapper
LastVisits ==
    IF Parses(last.file_path) /\ ResolutionOf(last.file_path).variant # NoneT
    THEN map_visits(last.eff.doc_id, CanonicalDictOf(last.file_path),
                    ResolutionOf(last.file_path).variant)
    ELSE <<>>

\* the visits that write a value to this property of this node record
WritesTo(visits, n, prop) ==
    SelectSeq(visits, LAMBDA w : /\ inst_key_of(w) = n.scope_root \o ":" \o n.entity_ref
                                 /\ w.t.property = prop
                                 /\ source_value(w) # NoneT)

\* C21: when several mappings of one document write non-null values to one
\* property of one instance, the instance keeps the value written first.
C21_FirstWriteWins ==
    \A b \in Range(last.eff.node_batches) : \A i \in 1..Len(b) :
        \A w \in Range(LastVisits) :
            WritesTo(LastVisits, b[i], w.t.property) # <<>> =>
                Get(b[i].properties, w.t.property)
                    = source_value(Head(WritesTo(LastVisits, b[i], w.t.property)))

\* the scope item a visit works on: the scope expression and the item's index
ScopeItem(w) == <<w.m.scope, w.idx>>

\* C22: the mappings of one scope share one instance per (scope item,
\* entity_ref), whatever their mapping ids: no two node records come from the
\* same scope item and entity_ref, and the records of one scope item share
\* one scope_root.
C22_SharedInstance ==
    \A b \in Range(last.eff.node_batches) : \A i, j \in 1..Len(b) :
        \A w1, w2 \in Range(LastVisits) :
            /\ inst_key_of(w1) = b[i].scope_root \o ":" \o b[i].entity_ref
            /\ inst_key_of(w2) = b[j].scope_root \o ":" \o b[j].entity_ref
            /\ ScopeItem(w1) = ScopeItem(w2)
            => /\ b[i].scope_root = b[j].scope_root
               /\ b[i].entity_ref = b[j].entity_ref => i = j

\* a required mapping found no value for some scope item of the last file
MissingRequired == \E w \in Range(LastVisits) : w.m.required /\ source_value(w) = NoneT

\* C23: a document in which a required mapping finds no value is quarantined
\* with category mapping_error; a missing value of a mapping that is not
\* required is no error.
C23_RequiredMapping ==
    /\ MissingRequired =>
          /\ last.eff.result = "quarantined"
          /\ \E q \in Range(last.eff.quarantined) : q.reason = "mapping_error"
    /\ ~MissingRequired =>
          \A q \in Range(last.eff.quarantined) : q.reason # "mapping_error"

\* C27: every node and relationship record handed to the graph sink has
\* non-empty ids, and every relationship joins two instances of its own
\* scope_root of the document.
C27_RelsWithinScope ==
    /\ \A b \in Range(last.eff.node_batches) : \A i \in 1..Len(b) : b[i].node_id # ""
    /\ \A rb \in Range(last.eff.rel_batches) : \A k \in 1..Len(rb) :
          /\ rb[k].from_id # "" /\ rb[k].to_id # ""
          /\ \E b \in Range(last.eff.node_batches) : \E i, j \in 1..Len(b) :
                /\ b[i].scope_root = rb[k].scope_root
                /\ b[j].scope_root = rb[k].scope_root
                /\ b[i].node_id = rb[k].from_id /\ b[i].label = rb[k].from_label
                /\ b[j].node_id = rb[k].to_id /\ b[j].label = rb[k].to_label
                /\ b[i].source_doc = rb[k].source_doc
                /\ b[j].source_doc = rb[k].source_doc

\* a document of two different vehicles handed to the sink with one
\* relationship per scope
C27_Witness ==
    /\ last.eff.result = "success"
    /\ \E rb \in Range(last.eff.rel_batches) : \E k, l \in 1..Len(rb) :
          /\ rb[k].scope_root # rb[l].scope_root
          /\ rb[k].to_id # rb[l].to_id

\* the identity key that names an instance of these properties: the first
\* whose when.exists properties are all set; <<>> when there is none
RECURSIVE ChosenKey(_, _)
ChosenKey(props, keys) ==
    IF keys = <<>> THEN <<>>
    ELSE IF when_holds([properties |-> props], RuleGet(Head(keys).when, "exists", <<>>))
         THEN Head(keys)
         ELSE ChosenKey(props, Tail(keys))

\* the node record lacks a property of its chosen identity key
LacksIdentity(n) ==
    /\ n.label \in DOMAIN schema_registry.entity_schemas
    /\ LET key == ChosenKey(n.properties,
                            schema_registry.entity_schemas[n.label].identity_keys)
       IN  /\ key # <<>>
           /\ \E x \in 1..Len(key.properties) :
                 Get(n.properties, key.properties[x]) = NoneT

\* C29: an instance that lacks a property of its chosen identity key gets the
\* doc-scoped id, so two instances that both lack it never share a node_id.
C29_HashOnlyNonNull ==
    \A b \in Range(last.eff.node_batches) : \A i \in 1..Len(b) :
        LacksIdentity(b[i]) =>
            /\ b[i].node_id = "DOCSCOPED:" \o b[i].source_doc \o ":" \o b[i].scope_root
                                  \o ":" \o b[i].entity_ref
            /\ \A j \in 1..Len(b) :
                  LacksIdentity(b[j]) /\ b[j].node_id = b[i].node_id => i = j

(***************************************************************************)
(* Rules of unknown kind (SpecPredicate).                                  *)
(***************************************************************************)
\* the verdicts of the rules of the "all" clause of the predicate under test
AllVerdicts == [i \in 1..Len(call.pred.all) |-> all_rule_verdict(call.doc, call.pred.all[i])]

\* C24: a rule of unknown kind in the "all" clause adds a reason, adds nothing
\* to the score and does not fail the predicate: when every other "all" rule is
\* satisfied and no "none" rule is hit, the predicate matches.
C24_UnknownKindNeutral ==
    /\ call.op = "eval_predicate"
    /\ \E i \in 1..Len(call.pred.all) : AllVerdicts[i] = "unsupported"
    /\ \A i \in 1..Len(call.pred.all) : AllVerdicts[i] \in {"ok", "unsupported"}
    /\ first_none_hit(call.doc, call.pred.none, 1) = 0
    => /\ call.out.matched
       /\ call.out.score = Cardinality({i \in 1..Len(call.pred.all) : AllVerdicts[i] = "ok"})
       /\ \E r \in Range(call.out.reasons) : r[1] = "unsupported_type"

(***************************************************************************)
(* The resolver and the document's meta fields (SpecResolve).              *)
(***************************************************************************)
\* meta blocks that differ in registry_code, service_code and method_code
MetaPool ==
    {<<>>, [registry_code |-> S("EIS")],
     [registry_code |-> S("R1"), service_code |-> S("s")],
     [registry_code |-> S("R2"), service_code |-> S("t"), method_code |-> S("m")]}

\* the document with its meta block replaced
WithMeta(doc, m) == D([meta |-> D(m), data |-> doc.m.data])

\* what the resolver decided: the variant, and the tied variants if any
Outcome(out) == [variant |-> out.variant, ambiguity |-> RuleGet(out.debug, "ambiguity", <<>>)]

NamesMeta(rules) ==
    \E i \in 1..Len(rules) : \E k \in 1..Len(rules[i].path) : rules[i].path[k] = Key("meta")

NoPredicateNamesMeta ==
    \A i \in 1..Len(ResolvePairs) :
        /\ ~NamesMeta(ResolvePairs[i].v.match_predicate.all)
        /\ ~NamesMeta(ResolvePairs[i].v.match_predicate.none)

\* C26: when no variant's predicate names a meta path, two documents that
\* differ only in meta.registry_code, service_code or method_code resolve to
\* the same variant, the same no-match or the same ambiguity.
C26_MetaIndependent ==
    (call.op = "resolve_variant" /\ call.done /\ NoPredicateNamesMeta) =>
        \A m \in MetaPool :
            Outcome(resolve_variant_impl(WithMeta(call.canonical_doc, m),
                                         call.register_schemas))
                = Outcome(call.out)

\* a document that names a registry was resolved to a variant of a register
\* schema of another registry_code
C26_Witness ==
    /\ call.op = "resolve_variant" /\ call.done /\ NoPredicateNamesMeta
    /\ Get(meta_of(call.canonical_doc), "registry_code") = S("EIS")
    /\ call.out.variant # NoneT
    /\ Len(ResolvePairs) >= 2

(***************************************************************************)
(* The path parser on path strings.  A string is its sequence of           *)
(* characters; _TOKEN_RE is matched as re.finditer matches it: at each     *)
(* position the first alternative that fits, skipping what fits none.      *)
(***************************************************************************)
MaxPathLen == 4

PathChars == {"$", ".", "a", "[", "]", "*", "0", "1", "?", " "}
WordChars == {"a", "0", "1"}
DigitVal == ("0" :> 0) @@ ("1" :> 1)

\* str.strip()
RECURSIVE strip(_)
strip(chars) ==
    IF chars = <<>> THEN <<>>
    ELSE IF Head(chars) = " " THEN strip(Tail(chars))
    ELSE IF chars[Len(chars)] = " " THEN strip(SubSeq(chars, 1, Len(chars) - 1))
    ELSE chars

\* the number of consecutive characters of the class from position i on
RECURSIVE run_length(_, _, _)
run_length(chars, i, class) ==
    IF i > Len(chars) \/ chars[i] \notin class THEN 0
    ELSE 1 + run_length(chars, i + 1, class)

\* int() of a digit string
RECURSIVE int_of(_)
int_of(digits) ==
    IF digits = <<>> THEN 0
    ELSE 10 * int_of(SubSeq(digits, 1, Len(digits) - 1)) + DigitVal[digits[Len(digits)]]

\* the match of _TOKEN_RE that starts at position i: its length and token, length
\* 0 when no alternative fits there
token_at(chars, i) ==
    IF chars[i] = "$" THEN [len |-> 1, tok |-> Root]
    ELSE IF chars[i] = "." /\ run_length(chars, i + 1, WordChars) > 0 THEN
        [len |-> 1 + run_length(chars, i + 1, WordChars),
         tok |-> Key(join("", SubSeq(chars, i + 1, i + run_length(chars, i + 1, WordChars))))]
    ELSE IF i + 2 <= Len(chars) /\ SubSeq(chars, i, i + 2) = <<"[", "*", "]">> THEN
        [len |-> 3, tok |-> Wild]
    ELSE IF /\ chars[i] = "["
            /\ run_length(chars, i + 1, DOMAIN DigitVal) > 0
            /\ i + run_length(chars, i + 1, DOMAIN DigitVal) + 1 <= Len(chars)
            /\ chars[i + run_length(chars, i + 1, DOMAIN DigitVal) + 1] = "]" THEN
        [len |-> run_length(chars, i + 1, DOMAIN DigitVal) + 2,
         tok |-> Idx(int_of(SubSeq(chars, i + 1,
                                   i + run_length(chars, i + 1, DOMAIN DigitVal))))]
    ELSE [len |-> 0, tok |-> NoneT]

\* str.split("."), as the list of parts
RECURSIVE split_dots(_, _)
split_dots(chars, part) ==
    IF chars = <<>> THEN <<part>>
    ELSE IF Head(chars) = "." THEN <<part>> \o split_dots(Tail(chars), <<>>)
    ELSE split_dots(Tail(chars), Append(part, Head(chars)))

\* the key tokens made of the text between two matches
chunk_keys(chunk) ==
    IF strip(chunk) = <<>> THEN <<>>
    ELSE LET parts == SelectSeq(split_dots(strip(chunk), <<>>), LAMBDA x : x # <<>>)
         IN  [k \in 1..Len(parts) |-> Key(join("", parts[k]))]

\* the loop over finditer: i is the scan position, pos the end of the last match
RECURSIVE scan_tokens(_, _, _, _)
scan_tokens(chars, i, pos, tokens) ==
    IF i > Len(chars) THEN tokens \o chunk_keys(SubSeq(chars, pos + 1, Len(chars)))
    ELSE IF token_at(chars, i).len = 0 THEN scan_tokens(chars, i + 1, pos, tokens)
    ELSE scan_tokens(chars, i + token_at(chars, i).len, i + token_at(chars, i).len - 1,
                     tokens \o chunk_keys(SubSeq(chars, pos + 1, i - 1))
                            \o <<token_at(chars, i).tok>>)

_parse_path(path) ==
    IF strip(path) = <<>> THEN [error |-> "empty path", tokens |-> <<>>]
    ELSE [error |-> "", tokens |-> scan_tokens(strip(path), 1, 0, <<>>)]

\* the loop of jp_values over the tokens: a root token after the first raises
RECURSIVE jp_walk_tokens(_, _)
jp_walk_tokens(cur, tokens) ==
    IF tokens = <<>> THEN [error |-> "", stage |-> "", values |-> cur]
    ELSE IF Head(tokens).t = "root" THEN
        [error |-> "unsupported token: root", stage |-> "traverse", values |-> <<>>]
    ELSE IF jp_step(cur, Head(tokens)) = <<>> THEN
        [error |-> "", stage |-> "", values |-> <<>>]
    ELSE jp_walk_tokens(jp_step(cur, Head(tokens)), Tail(tokens))

\* jp_values on a path string, given its parse
jp_values_parsed(obj, parsed) ==
    IF parsed.error # "" THEN [error |-> parsed.error, stage |-> "parse", values |-> <<>>]
    ELSE [jp_walk_tokens(<<obj>>, path_tokens(parsed.tokens))
            EXCEPT !.values = SelectSeq(@, LAMBDA x : x # NoneT)]

(***************************************************************************)
(* jp_values on its own: a path string of up to MaxPathLen characters is   *)
(* evaluated on a document of PathObjs.                                    *)
(***************************************************************************)
PathStrings == UNION {[1..n -> PathChars] : n \in 0..MaxPathLen}

PathObjs ==
    {D([a |-> L(<<S("x"), S("y")>>)]),
     D([a |-> D([a |-> S("z"), b |-> NoneT])])}

InitPath ==
    /\ graph_sink = "json"
    /\ pipes = [p \in Pipes |-> [state |-> "none", run_id |-> RunIds[p],
                                 run_record |-> NoneT]]
    /\ PipelineInit
    /\ \E path \in PathStrings :
          call = [op |-> "jp_values", path |-> path, obj |-> NoneT, done |-> FALSE,
                  parsed |-> [error |-> "", tokens |-> <<>>],
                  out |-> [error |-> "", stage |-> "", values |-> <<>>]]

\* jp_values(obj, path)
JpValues(obj) ==
    /\ call.op = "jp_values"
    /\ ~call.done
    /\ \E parsed \in {_parse_path(call.path)} :
          call' = [call EXCEPT !.obj = obj, !.done = TRUE, !.parsed = parsed,
                               !.out = jp_values_parsed(obj, parsed)]
    /\ UNCHANGED pipeline_vars

NextPath == \E obj \in PathObjs : JpValues(obj)

SpecPath == InitPath /\ [][NextPath]_vars

\* the four tokens of the path language: $, .name, [n] and [*]
IsPathToken(t) ==
    \/ t = <<"$">>
    \/ t = <<"[", "*", "]">>
    \/ /\ Len(t) >= 2 /\ t[1] = "."
       /\ \A k \in 2..Len(t) : t[k] \in WordChars
    \/ /\ Len(t) >= 3 /\ t[1] = "[" /\ t[Len(t)] = "]"
       /\ \A k \in 2..(Len(t) - 1) : t[k] \in DOMAIN DigitVal

\* the string is a concatenation of path tokens
RECURSIVE IsTokenString(_)
IsTokenString(chars) ==
    \/ chars = <<>>
    \/ \E k \in 1..Len(chars) :
          IsPathToken(SubSeq(chars, 1, k)) /\ IsTokenString(SubSeq(chars, k + 1, Len(chars)))

\* C25: a path string that holds anything other than the tokens $, .name, [n]
\* and [*] is rejected with an error when it is parsed, before any tree is
\* traversed, and is never evaluated as some other path.
C25_RejectUnknownTokens ==
    (call.op = "jp_values" /\ call.done /\ ~IsTokenString(strip(call.path))) =>
        /\ call.out.error # ""
        /\ call.out.stage = "parse"
        /\ call.out.values = <<>>

(***************************************************************************)
(* A batch run: the workers of run_batch each build their own pipeline     *)
(* with the run id of the batch, ingest files of the batch and close.      *)
(***************************************************************************)
WorkerFiles == {"f_a", "f_car", "f_none", "f_cars2"}

\* settings.run_id = pipeline.run_id: every worker is given the id of the batch
InitWorkers ==
    /\ graph_sink \in {"json", "neo4j"}
    /\ pipes = [p \in Pipes |-> [state |-> "none", run_id |-> "r1", run_record |-> NoneT]]
    /\ PipelineInit
    /\ call = NoCall

\* each file of the batch is submitted once
NextWorkers ==
    \/ \E p \in Pipes : NewPipeline(p)
    \/ \E p \in Pipes : \E f \in WorkerFiles :
          /\ \A d \in Stored : d.raw.file_path # f
          /\ IngestFile(p, f, "none")
    \/ \E p \in Pipes : Close(p)

SpecWorkers == InitWorkers /\ [][NextWorkers]_vars

RECURSIVE SumField(_, _)
SumField(recs, field) ==
    IF recs = {} THEN 0
    ELSE LET x == CHOOSE x \in recs : TRUE
         IN  x[field] + SumField(recs \ {x}, field)

\* per stored document of the run: what ingest_file counted for it
RunCounts(run_id) ==
    {[document_id |-> d.document_id,
      extracted |-> IF d.ingestion_status = "processed"
                    THEN Len(MappedOf(d.raw.file_path, run_id)) ELSE 0,
      upserted |-> d.nodes_created,
      created |-> d.rels_created] : d \in {x \in Stored : x.run_id = run_id}}

\* C28: after every worker of a run has closed, the stored run record holds
\* the sums over the documents of the run of the entities extracted, the
\* entities upserted and the relationships created.
C28_RunMetricsSum ==
    (\A p \in Pipes : pipes[p].state = "closed") =>
        /\ "r1" \in DOMAIN runs
        /\ runs["r1"].metrics.entities_extracted = SumField(RunCounts("r1"), "extracted")
        /\ runs["r1"].metrics.entities_upserted = SumField(RunCounts("r1"), "upserted")
        /\ runs["r1"].metrics.relationships_created = SumField(RunCounts("r1"), "created")

(***************************************************************************)
(* The schema registry object: load() reads the stored schemas into the    *)
(* object, resolve_variant resolves a document against what it holds.      *)
(***************************************************************************)
MaxLoads == 2

\* the stored schemas: the entity and relationship schemas, and the first n
\* register schemas, of schema_registry
StoredSchemas(n) ==
    [entity_schemas |-> schema_registry.entity_schemas,
     register_schemas |-> SubSeq(schema_registry.register_schemas, 1, n),
     relationship_schemas |-> schema_registry.relationship_schemas]

\* the registry object as its constructor leaves it
EmptyRegistry == [entity_schemas |-> <<>>, register_schemas |-> <<>>,
                  relationship_schemas |-> <<>>]

\* JsonSchemaRegistry.load: the entity schemas are reset, then every schema
\* file is read and added
JsonSchemaRegistry_load(reg, stored) ==
    [entity_schemas |-> stored.entity_schemas,
     register_schemas |-> reg.register_schemas \o stored.register_schemas,
     relationship_schemas |-> reg.relationship_schemas \o stored.relationship_schemas]

\* MongoSchemaRegistry.load: the three collections are reset and read
MongoSchemaRegistry_load(reg, stored) ==
    [entity_schemas |-> stored.entity_schemas,
     register_schemas |-> stored.register_schemas,
     relationship_schemas |-> stored.relationship_schemas]

RegistryFiles == DOMAIN FileBytes \ {"f_bad"}

InitRegistry ==
    /\ graph_sink = "json"
    /\ pipes = [p \in Pipes |-> [state |-> "none", run_id |-> RunIds[p],
                                 run_record |-> NoneT]]
    /\ PipelineInit
    /\ \E backend \in {"json", "mongo"} :
       \E n \in 0..Len(schema_registry.register_schemas) :
          call = [op |-> "registry", schema_backend |-> backend,
                  stored |-> StoredSchemas(n), reg |-> EmptyRegistry, loads |-> 0,
                  file_path |-> "", out |-> [variant |-> NoneT, debug |-> <<>>]]

\* BaseSchemaRegistry.load
Load ==
    /\ call.op = "registry"
    /\ call.loads < MaxLoads
    /\ call' = [call EXCEPT !.loads = @ + 1,
                  !.reg = IF call.schema_backend = "json"
                          THEN JsonSchemaRegistry_load(call.reg, call.stored)
                          ELSE MongoSchemaRegistry_load(call.reg, call.stored)]
    /\ UNCHANGED pipeline_vars

\* BaseSchemaRegistry.resolve_variant, as step 3 of ingest_file calls it
RegistryResolve(f) ==
    /\ call.op = "registry"
    /\ call.loads >= 1
    /\ call' = [call EXCEPT !.file_path = f,
                  !.out = resolve_variant_impl(CanonicalDictOf(f), call.reg.register_schemas)]
    /\ UNCHANGED pipeline_vars

NextRegistry ==
    \/ Load
    \/ \E f \in RegistryFiles : RegistryResolve(f)

SpecRegistry == InitRegistry /\ [][NextRegistry]_vars

\* the registry object after exactly one load of the stored schemas
LoadedOnce(backend, stored) ==
    IF backend = "json" THEN JsonSchemaRegistry_load(EmptyRegistry, stored)
    ELSE MongoSchemaRegistry_load(EmptyRegistry, stored)

Ambiguous(out) == "ambiguity" \in DOMAIN out.debug

\* C30: a registry that was loaded, once or more, holds the schemas that one
\* load gives, so no document that resolves without ambiguity after one load
\* resolves as ambiguous after a reload; and resolving a document leaves the
\* schemas of the registry as they were.
C30_LoadIdempotent ==
    [][/\ call'.loads >= 1 =>
            /\ call'.reg = LoadedOnce(call'.schema_backend, call'.stored)
            /\ \A f \in RegistryFiles :
                  Ambiguous(resolve_variant_impl(CanonicalDictOf(f),
                                                 call'.reg.register_schemas))
                  => Ambiguous(resolve_variant_impl(CanonicalDictOf(f),
                        LoadedOnce(call'.schema_backend, call'.stored).register_schemas))
       /\ call'.loads = call.loads => call'.reg = call.reg]_vars
====
